---- MODULE Spec2Model ----
(***************************************************************************)
(* Better-Kualitee: the two CSV-driven bulk flows,                         *)
(*   update_bulk_defects   (src/modules/defect.py)                         *)
(*   execute_all_from_csv  (src/modules/test_cycle.py)                     *)
(* as one state machine: prompt -> read CSV -> (fetch) -> validate row by  *)
(* row -> preview -> confirm -> execute row by row -> summary.             *)
(*                                                                         *)
(* Python strings whose case or characters the code inspects (status       *)
(* cells, answers, file paths) are sequences of one-character strings, so  *)
(* that str.lower() and Path.suffix are computed, not assumed.  Python's   *)
(* None in a string position is the one-element sequence None, which no    *)
(* string of characters equals.                                            *)
(*                                                                         *)
(* The specifications share the variables: Spec (FairSpec with fairness)   *)
(* follows the flows handler by handler; StepSpec follows them request by  *)
(* request, with the worker threads of get_multiple_defects; GwSpec        *)
(* applies each operation of the two API clients once; RcaSpec sets        *)
(* update_single_defect beside the bulk update; MenuSpec follows the       *)
(* menus of main.py and of the two modules, with Ctrl+C and the exceptions *)
(* that travel up the call stack; IntSpec is StepSpec with a Ctrl+C that   *)
(* may arrive while the rows are executed.                                 *)
(***************************************************************************)
EXTENDS Integers, Sequences, FiniteSets, TLC

\* ------------------------------------------------------------------ bounds
\* Rows in a CSV file.
MaxRows == 3
\* Characters in a token drawn from the two-letter alphabet.
MaxTokenLen == 9
\* Fields in a defect snapshot handed to update_defect.
MaxFields == 2

\* ----------------------------------------------------------------- strings
None == <<"None">>

UpperLetters == <<"A","B","C","D","E","F","G","H","I","J","K","L","M",
                  "N","O","P","Q","R","S","T","U","V","W","X","Y","Z">>
LowerLetters == <<"a","b","c","d","e","f","g","h","i","j","k","l","m",
                  "n","o","p","q","r","s","t","u","v","w","x","y","z">>

\* str.lower() on one character.
LowerChar(c) ==
    IF \E k \in DOMAIN UpperLetters : UpperLetters[k] = c
    THEN LowerLetters[CHOOSE k \in DOMAIN UpperLetters : UpperLetters[k] = c]
    ELSE c

\* str.lower()
Lower(s) == [k \in 1..Len(s) |-> LowerChar(s[k])]

str_close  == <<"c","l","o","s","e">>
str_CLOSE  == <<"C","L","O","S","E">>
str_Close  == <<"C","l","o","s","e">>
str_open   == <<"o","p","e","n">>
str_Open   == <<"O","p","e","n">>
str_Passed == <<"P","a","s","s","e","d">>
str_passed == <<"p","a","s","s","e","d">>
str_PASSED == <<"P","A","S","S","E","D">>
str_yes    == <<"y","e","s">>
str_YES    == <<"Y","E","S">>
str_no     == <<"n","o">>
str_y      == <<"y">>
str_n      == <<"n">>
str_rca    == <<"C","o","d","e",":"," ","B","u","g">>

\* An RCA text that is none of the options of the list below.
str_code_bug == <<"c","o","d","e"," ","b","u","g">>

\* defect.py, lines 26-55.
RCA_OPTIONS ==
    << <<"A","p","p","l","i","c","a","t","i","o","n"," ","I","s","s","u","e","s",":">>,
       <<"C","o","d","e",":"," ","B","u","g">>,
       <<"C","o","d","e",":"," ","D","e","p","l","o","y","m","e","n","t"," ","I","s","s","u","e">>,
       <<"C","o","d","e",":"," ","M","i","s","a","l","i","g","n","m","e","n","t"," ","b","/","w"," ","P","r","o","d"," ","&"," ","T","e","s","t"," ","L","a","b">>,
       <<"C","o","d","e",":"," ","M","i","s","s","e","d"," ","d","u","r","i","n","g"," ","d","e","p","l","o","y","m","e","n","t">>,
       <<"C","o","n","f","i","g","u","r","a","t","i","o","n",":"," ","B","u","g">>,
       <<"C","o","n","f","i","g","u","r","a","t","i","o","n",":"," ","C","h","a","n","g","e">>,
       <<"C","o","n","f","i","g","u","r","a","t","i","o","n",":"," ","M","i","s","s","e","d">>,
       <<"D","a","t","a","b","a","s","e"," ","i","s","s","u","e">>,
       <<"D","e","s","i","g","n"," ","I","s","s","u","e",":"," ","C","o","d","e"," ","C","h","a","n","g","e">>,
       <<"D","e","s","i","g","n"," ","I","s","s","u","e",":"," ","D","e","s","i","g","n"," ","C","h","a","n","g","e">>,
       <<"E","n","v","i","r","o","n","m","e","n","t"," ","I","s","s","u","e","s">>,
       <<"I","n","f","r","a"," ","I","s","s","u","e","s">>,
       <<"I","n","t","e","r","m","i","t","t","e","n","t"," ","C","o","n","n","e","c","t","i","v","i","t","y"," ","I","s","s","u","e","s">>,
       <<"P","r","o","d","u","c","t","i","o","n"," ","B","A","U">>,
       <<"R","e","q","."," ","-"," ","N","A"," ","/"," ","O","O","S">>,
       <<"R","e","q","u","i","r","e","m","e","n","t","s",":"," ","M","i","s","s","e","d">>,
       <<"R","e","q","u","i","r","e","m","e","n","t","s",":"," ","N","e","w","/","C","h","a","n","g","e">>,
       <<"R","e","t","r","o","f","i","t"," ","I","s","s","u","e">>,
       <<"S","e","r","v","i","c","e"," ","R","e","q","u","e","s","t"," ","(","N","o","t"," ","D","e","f","e","c","t",")">>,
       <<"T","e","s","t"," ","D","a","t","a",":"," ","I","n","c","o","r","r","e","c","t"," ","t","e","s","t"," ","d","a","t","a"," ","p","r","o","v","i","d","e","d"," ","t","o"," ","t","e","s","t"," ","t","e","a","m">>,
       <<"T","e","s","t",":"," ","D","u","p","l","i","c","a","t","e"," ","D","e","f","e","c","t">>,
       <<"T","e","s","t",":"," ","I","n","c","o","r","r","e","c","t"," ","t","e","s","t"," ","d","a","t","a"," ","u","s","e","d"," ","f","o","r"," ","t","e","s","t">>,
       <<"T","e","s","t",":"," ","M","i","s","s","e","d"," ","b","y"," ","E","2","E"," ","t","e","a","m">>,
       <<"T","e","s","t",":"," ","T","e","s","t"," ","C","a","s","e"," ","E","r","r","o","r">>,
       <<"T","e","s","t",":"," ","T","e","s","t"," ","D","a","t","a"," ","i","s","s","u","e">>,
       <<"T","e","s","t",":"," ","T","e","s","t"," ","D","e","v","i","c","e"," ","I","s","s","u","e">>,
       <<"T","e","s","t",":"," ","T","e","s","t"," ","U","s","e","r"," ","E","r","r","o","r">> >>

\* ------------------------------------------------------------ the world
\* The remote defect store at the start of a run: D1 is open, D2 is closed
\* (the server spells it with a capital).  Any other id is unknown (HTTP 404).
ServerInit == [d \in {"D1", "D2"} |-> IF d = "D1" THEN str_Open ELSE str_Close]

\* Ids whose detail fetch may fail in transit although the defect exists.
FlakyIds == {"D1"}

\* One CSV row of the defect flow; a cell the line lacks is None (csv.DictReader).
DefectRow(id, st, rca) == [defect_id |-> id, status |-> st, RCA |-> rca]

\* The rows a defects CSV may hold.
DefectRowSet ==
    {DefectRow(id, st, str_rca) : id \in {"D1", "D2", "D3"}, st \in {str_close, str_open}}
      \cup {DefectRow("D1", str_CLOSE, str_rca),
            DefectRow("D1", None, None),
            DefectRow("D1", str_close, None)}

\* The test cases of the open cycle as list_test_cases returned them: TC_A
\* once, TC_B twice (two test cases of one name), and no TC_Z.
TestCase(name, id) == [tc_name |-> name, testcase_id |-> id]
CycleTestCases == <<TestCase("TC_A", 1), TestCase("TC_B", 2), TestCase("TC_B", 3)>>

\* Attachment paths, and the files that exist on disk.
path_a_png == <<"a", ".", "p", "n", "g">>
path_b_PNG == <<"b", ".", "P", "N", "G">>
path_a_exe == <<"a", ".", "e", "x", "e">>
path_gone  == <<"g", ".", "p", "n", "g">>
ExistingFiles == {path_a_png, path_b_PNG, path_a_exe}

\* One CSV row of the test flow.
TestRow(name, st, att) == [test_case_name |-> name, status |-> st, attachment |-> att]

\* The rows a test-execution CSV may hold.
TestRowSet ==
    {TestRow("TC_A", str_Passed, path_a_png),
     TestRow("TC_B", str_Passed, path_b_PNG),
     TestRow("TC_A", str_Passed, path_gone),
     TestRow("TC_Z", str_Passed, path_a_png),
     TestRow("TC_Z", str_Passed, path_gone),
     TestRow("TC_A", str_passed, path_a_png),
     TestRow("TC_A", str_PASSED, path_a_png),
     TestRow("TC_A", str_Passed, path_a_exe),
     TestRow("TC_A", str_Passed, None)}

\* Sequences of at most n elements of S.
SeqsUpTo(S, n) == UNION {[1..k -> S] : k \in 0..n}

\* ------------------------------------------------------------------ state
VARIABLES
    flow,           \* "defect" (update_bulk_defects) or "test" (execute_all_from_csv)
    pc,             \* position in the handler
    csv_rows,       \* list(csv.DictReader(f))
    i,              \* index of the next row of the running for loop
    defects_data,   \* get_multiple_defects' result: id -> snapshot
    valid,          \* defect flow: eligible rows
    matched,        \* test flow: eligible rows
    skipped,        \* rows skipped, with the reason
    confirm,        \* what the user typed at the confirmation prompt
    success_count,
    fail_count,
    summary,        \* the three counts printed at the end
    calls,          \* write requests issued, in order
    server,         \* remote defect store: id -> status
    test_cases,     \* test flow: the cycle's test cases, as list_test_cases returned them
    max_workers,    \* get_multiple_defects: the size of the thread pool
    futures,        \* get_multiple_defects: the submitted fetches, in submission order
    yielded,        \* get_multiple_defects: the futures as_completed has handed out, in order
    in_flight,      \* write requests sent and not yet answered
    exec_id,        \* test flow: execute_test's result, between the two requests of a row
    g_op,           \* the gateway operation applied on its own
    g_in,           \* its arguments
    g_out,          \* its result
    single,         \* update_single_defect: the defect fetched and the RCA selected
    stack,          \* the menu functions entered and not yet left, outermost first
    wait,           \* what the innermost of them waits for
    exit_code,      \* the process's exit code, -1 while it runs
    last_interrupt_time,
    now,            \* time.time(), in seconds
    config,         \* what config.json holds
    api,            \* the module whose API client is built
    sent,           \* a request was sent to the remote API
    event           \* the last input of the user and how it was handled

\* The state of one request-level step of the gateway, idle while a bulk flow
\* is followed handler by handler.
menuvars == <<single, stack, wait, exit_code, last_interrupt_time, now, config, api, sent,
              event>>

aux == <<max_workers, futures, yielded, in_flight, exec_id, g_op, g_in, g_out, menuvars>>

vars == <<flow, pc, csv_rows, i, defects_data, valid, matched, skipped, confirm,
          success_count, fail_count, summary, calls, server, test_cases, aux>>

NoAnswer == <<"unasked">>
NoSummary == [printed |-> FALSE, success |-> 0, failed |-> 0, skipped |-> 0]

\* Line 277: max_workers: int = 10
DefaultMaxWorkers == 10

NoSingle == [defect_id |-> <<>>, defect |-> [isNone |-> TRUE, status |-> <<>>], rca |-> <<>>]
NoEvent == [kind |-> "none"]

\* Line 47 of test_cycle.py: current_time - last_interrupt_time < 2.0
DebounceWindow == 2

\* Line 33 of test_cycle.py: last_interrupt_time = 0
NeverInterrupted == 0

\* time.time() when the program starts, in seconds: far more than 2.
StartTime == 5 * DebounceWindow

\* No menu entered: the state of the interactive layer while a bulk flow or a
\* gateway operation is followed on its own.
MenuIdle ==
    /\ single = NoSingle
    /\ stack = <<>>
    /\ wait = "none"
    /\ exit_code = -1
    /\ last_interrupt_time = NeverInterrupted
    /\ now = StartTime
    /\ config = "object_ok"
    /\ api = "none"
    /\ sent = FALSE
    /\ event = NoEvent

\* No thread pool, no request in flight, no gateway operation applied on its own.
GatewayIdle ==
    /\ max_workers = DefaultMaxWorkers
    /\ futures = <<>>
    /\ yielded = <<>>
    /\ in_flight = {}
    /\ exec_id = None
    /\ g_op = "none"
    /\ g_in = <<>>
    /\ g_out = <<>>

AuxIdle == GatewayIdle /\ MenuIdle

\* The variables of a bulk flow and those of the gateway's own steps.
flowvars == <<flow, pc, csv_rows, i, defects_data, valid, matched, skipped, confirm,
              success_count, fail_count, summary, calls, server, test_cases>>
gatewayvars == <<max_workers, futures, yielded, in_flight, exec_id, g_op, g_in, g_out>>

Init ==
    /\ flow \in {"defect", "test"}
    /\ pc = "prompt"
    /\ csv_rows = <<>>
    /\ i = 1
    /\ defects_data = <<>>
    /\ valid = <<>>
    /\ matched = <<>>
    /\ skipped = <<>>
    /\ confirm = NoAnswer
    /\ success_count = 0
    /\ fail_count = 0
    /\ summary = NoSummary
    /\ calls = <<>>
    /\ server = ServerInit
    /\ test_cases = IF flow = "test" THEN CycleTestCases ELSE <<>>
    /\ AuxIdle

\* ------------------------------------------------------- API gateway (defect)
\* A snapshot as get_defect_details returns it: None, or the defect's dict.
NoneDefect == [isNone |-> TRUE, status |-> <<>>]
DefectDict(st) == [isNone |-> FALSE, status |-> st]

\* get_defect_details: the JSON body on HTTP 200; None when _request raises
\* (raise_for_status on a non-200 answer, or a transport error).
get_defect_details(defect_id, transport_ok) ==
    IF transport_ok /\ defect_id \in DOMAIN server
    THEN DefectDict(server[defect_id])
    ELSE NoneDefect

\* get_multiple_defects: one entry per requested id.
get_multiple_defects(defect_ids, failed) ==
    [d \in defect_ids |-> get_defect_details(d, d \notin failed)]

\* defects_data.get(defect_id)
DictGet(d, k) == IF k \in DOMAIN d THEN d[k] ELSE NoneDefect

\* What may happen to POST /defects/update: HTTP 200 and the update applied;
\* HTTP 200 with a body saying status false, nothing applied; a non-200 answer;
\* no answer at all.
UpdateOutcomes == {"ok", "ok_status_false", "http_error", "transport_error"}

\* update_defect's result: True when _request returns, False when it raises
\* (every exception is caught inside update_defect).
update_defect(outcome) == outcome \in {"ok", "ok_status_false"}

\* ---------------------------------------------------- update_bulk_defects
\* What the user types at "Enter CSV file path": nothing, a path with no file
\* behind it, or the path of a CSV file.
CsvPaths == {"", "missing.csv", "rows.csv"}

\* The CSV files the path may name: a header with the three columns and up to
\* MaxRows rows, or a header that lacks the RCA column.
DefectCsvFiles ==
    SeqsUpTo(DefectRowSet, MaxRows)
      \cup {<<[defect_id |-> "D1", status |-> str_close]>>}

DefectRequiredCols == {"defect_id", "status", "RCA"}

\* Lines 483-517: the path prompt, the file checks, the header check.
DefectAskCsv ==
    /\ flow = "defect"
    /\ pc = "prompt"
    /\ \E csv_file \in CsvPaths :
         IF csv_file = "" \/ csv_file = "missing.csv"
         THEN /\ pc' = "returned"
              /\ UNCHANGED csv_rows
         ELSE \E rows \in DefectCsvFiles :
                /\ csv_rows' = rows
                /\ pc' = IF rows = <<>> \/ ~(DefectRequiredCols \subseteq DOMAIN rows[1])
                         THEN "returned"
                         ELSE "fetch"
    /\ UNCHANGED <<flow, i, defects_data, valid, matched, skipped, confirm,
                   success_count, fail_count, summary, calls, server, test_cases>>
    /\ UNCHANGED aux

\* Lines 517-521: the details of every id of the CSV, fetched before validation.
DefectFetch ==
    /\ flow = "defect"
    /\ pc = "fetch"
    /\ LET defect_ids == {csv_rows[k].defect_id : k \in DOMAIN csv_rows}
       IN  \E failed \in SUBSET (defect_ids \cap FlakyIds) :
             defects_data' = get_multiple_defects(defect_ids, failed)
    /\ pc' = "validate"
    /\ i' = 1
    /\ UNCHANGED <<flow, csv_rows, valid, matched, skipped, confirm,
                   success_count, fail_count, summary, calls, server, test_cases>>
    /\ UNCHANGED aux

\* Line 533: status.lower() != 'close'
DefectStatusInvalid(status) == Lower(status) # str_close

\* DefectDecision looking the defect up before it checks the row's status.
DefectDecision_LookupFirst(row, data) ==
    IF row.status = None THEN "raise"
    ELSE IF DictGet(data, row.defect_id).isNone THEN "Defect not found"
    ELSE IF DefectStatusInvalid(row.status) THEN "Invalid status"
    ELSE IF Lower(DictGet(data, row.defect_id).status) = str_close THEN "Already closed"
    ELSE "valid"

\* Lines 532-549: the decision on one row.  "raise" is the AttributeError of
\* None.lower() on a row whose line has no status cell.
DefectDecision(row, data) ==
    IF row.status = None THEN "raise"
    ELSE IF DefectStatusInvalid(row.status) THEN "Invalid status"
    ELSE IF DictGet(data, row.defect_id).isNone THEN "Defect not found"
    ELSE IF Lower(DictGet(data, row.defect_id).status) = str_close THEN "Already closed"
    ELSE "valid"

\* valid.append((defect_id, status, rca, defect)); `row` is the line's index.
ValidEntry(k, row, data) ==
    [row |-> k, defect_id |-> row.defect_id, status |-> row.status, rca |-> row.RCA,
     defect |-> DictGet(data, row.defect_id)]

\* skipped.append((defect_id, reason))
SkippedEntry(k, name, reason) == [row |-> k, name |-> name, reason |-> reason]

\* DefectLoopBody with the `continue` of line 547 lost: an already-closed row
\* is appended to skipped and then falls through to valid.append.
DefectLoopBody_NoContinue(k, row, data, v, sk) ==
    IF DefectDecision(row, data) = "valid"
    THEN [valid |-> Append(v, ValidEntry(k, row, data)), skipped |-> sk]
    ELSE [valid |-> IF DefectDecision(row, data) = "Already closed"
                    THEN Append(v, ValidEntry(k, row, data)) ELSE v,
          skipped |-> Append(sk, SkippedEntry(k, row.defect_id, DefectDecision(row, data)))]

\* DefectLoopBody skipping a row whose defect an earlier row already closes.
DefectLoopBody_Dedup(k, row, data, v, sk) ==
    IF DefectDecision(row, data) = "valid"
         /\ \A m \in DOMAIN v : v[m].defect_id # row.defect_id
    THEN [valid |-> Append(v, ValidEntry(k, row, data)), skipped |-> sk]
    ELSE [valid |-> v,
          skipped |-> Append(sk, SkippedEntry(k, row.defect_id,
                        IF DefectDecision(row, data) = "valid" THEN "Duplicate"
                        ELSE DefectDecision(row, data)))]

\* Lines 527-549, the body of the validation loop on row k: the two lists
\* after it.  Each skip appends to skipped and continues; the last statement
\* appends to valid.
DefectLoopBody(k, row, data, v, sk) ==
    IF DefectDecision(row, data) = "valid"
    THEN [valid |-> Append(v, ValidEntry(k, row, data)), skipped |-> sk]
    ELSE [valid |-> v,
          skipped |-> Append(sk, SkippedEntry(k, row.defect_id, DefectDecision(row, data)))]

\* Lines 527-549: one iteration of the validation loop; an exception leaves
\* the loop for the handler of line 619.
DefectValidateRow ==
    /\ flow = "defect"
    /\ pc = "validate"
    /\ i <= Len(csv_rows)
    /\ IF DefectDecision(csv_rows[i], defects_data) = "raise"
       THEN /\ pc' = "error"
            /\ UNCHANGED <<i, valid, skipped>>
       ELSE LET after == DefectLoopBody(i, csv_rows[i], defects_data, valid, skipped)
            IN  /\ valid' = after.valid
                /\ skipped' = after.skipped
                /\ i' = i + 1
                /\ pc' = IF i = Len(csv_rows) THEN "preview" ELSE "validate"
    /\ UNCHANGED <<flow, csv_rows, defects_data, matched, confirm,
                   success_count, fail_count, summary, calls, server, test_cases>>
    /\ UNCHANGED aux

\* Lines 551-586: the preview table (rca[:40] raises TypeError on a None RCA),
\* then the return when nothing is valid.
DefectPreview ==
    /\ flow = "defect"
    /\ pc = "preview"
    /\ pc' = IF \E k \in DOMAIN valid : valid[k].rca = None THEN "error"
             ELSE IF valid = <<>> THEN "returned"
             ELSE "confirm"
    /\ UNCHANGED <<flow, csv_rows, i, defects_data, valid, matched, skipped, confirm,
                   success_count, fail_count, summary, calls, server, test_cases>>
    /\ UNCHANGED aux

\* Prompt.ask(..., default=d): the default on empty input.
PromptAsk(input, default) == IF input = <<>> THEN default ELSE input

DefectAnswers == {<<>>, str_no, str_y, str_yes, str_YES}

\* DefectProceeds cancelling only on "no".
DefectProceeds_UnlessNo(answer) == Lower(answer) # str_no

\* Line 589: confirm.lower() != "yes" cancels.
DefectProceeds(answer) == Lower(answer) = str_yes

\* Lines 588-597.
DefectConfirm ==
    /\ flow = "defect"
    /\ pc = "confirm"
    /\ \E input \in DefectAnswers :
         /\ confirm' = input
         /\ pc' = IF DefectProceeds(PromptAsk(input, str_no)) THEN "execute" ELSE "returned"
    /\ i' = 1
    /\ UNCHANGED <<flow, csv_rows, defects_data, valid, matched, skipped,
                   success_count, fail_count, summary, calls, server, test_cases>>
    /\ UNCHANGED aux

\* The POST /defects/update request of one row, with the store's status of the
\* defect when the request is made.
UpdateCall(e, outcome) ==
    [op |-> "update_defect", row |-> e.row, target |-> e.defect_id,
     status |-> e.status, rca |-> e.rca,
     snapshot_status |-> e.defect.status,
     remote_status |-> IF e.defect_id \in DOMAIN server THEN server[e.defect_id] ELSE <<>>,
     result |-> update_defect(outcome)]

\* LoopAdvance staying on a row that failed, to try it again.
LoopAdvance_RetryFailed(k, succeeded) == IF succeeded THEN k + 1 ELSE k

\* The for loops of lines 599 and 813 take each element once, whatever the
\* outcome of the element before.
LoopAdvance(k, succeeded) == k + 1

\* Lines 599-607: one iteration of the update loop.
DefectExecuteRow ==
    /\ flow = "defect"
    /\ pc = "execute"
    /\ i <= Len(valid)
    /\ \E outcome \in UpdateOutcomes :
         /\ calls' = Append(calls, UpdateCall(valid[i], outcome))
         /\ server' = IF outcome = "ok" /\ valid[i].defect_id \in DOMAIN server
                      THEN [server EXCEPT ![valid[i].defect_id] = valid[i].status]
                      ELSE server
         /\ IF update_defect(outcome)
            THEN success_count' = success_count + 1 /\ UNCHANGED fail_count
            ELSE fail_count' = fail_count + 1 /\ UNCHANGED success_count
         /\ i' = LoopAdvance(i, update_defect(outcome))
    /\ pc' = IF i' > Len(valid) THEN "summary" ELSE "execute"
    /\ UNCHANGED <<flow, csv_rows, defects_data, valid, matched, skipped, confirm, summary,
                   test_cases>>
    /\ UNCHANGED aux

\* Lines 609-614.
DefectSummary ==
    /\ flow = "defect"
    /\ pc = "summary"
    /\ summary' = [printed |-> TRUE, success |-> success_count, failed |-> fail_count,
                   skipped |-> Len(skipped)]
    /\ pc' = "returned"
    /\ UNCHANGED <<flow, csv_rows, i, defects_data, valid, matched, skipped, confirm,
                   success_count, fail_count, calls, server, test_cases>>
    /\ UNCHANGED aux

\* ------------------------------------------------- API gateway (test cycle)
\* What may come back from POST /test_case_execution/execute.  `raises` is
\* _request re-raising a RequestException (transport error, non-2xx status);
\* `empty` is a body that is falsy in Python ({} or null).
ExecResponse(raises, empty, status, results) ==
    [raises |-> raises, empty |-> empty, status |-> status, executed_results |-> results]
ExecResponses ==
    {ExecResponse(TRUE, FALSE, FALSE, <<>>),
     ExecResponse(FALSE, TRUE, FALSE, <<>>),
     ExecResponse(FALSE, FALSE, FALSE, <<>>),
     ExecResponse(FALSE, FALSE, TRUE, <<>>),
     ExecResponse(FALSE, FALSE, TRUE, <<[id |-> None]>>),
     ExecResponse(FALSE, FALSE, TRUE, <<[id |-> <<"7">>]>>)}

\* execute_test: "raise" when _request raises; else None or the execution id.
execute_test(response) ==
    IF response.raises THEN <<"raise">>
    ELSE IF response.empty THEN None
    ELSE IF ~response.status THEN None
    ELSE IF response.executed_results = <<>> THEN None
    ELSE response.executed_results[1].id

\* Path.suffix of a path with no directory part: from the last dot on, empty
\* when there is none or the name only starts with one.
Suffix(path) ==
    LET dots == {k \in DOMAIN path : path[k] = "."}
        last == CHOOSE k \in dots : \A m \in dots : m <= k
    IN  IF dots = {} \/ last = 1 THEN <<>> ELSE SubSeq(path, last, Len(path))

\* Ext comparing the suffix as it is spelt.
Ext_CaseSensitive(path) == IF Suffix(path) = <<>> THEN <<>> ELSE Tail(Suffix(path))

\* file_path.suffix[1:].lower()
Ext(path) == Lower(IF Suffix(path) = <<>> THEN <<>> ELSE Tail(Suffix(path)))

ALLOWED_EXTENSIONS ==
    {<<"g","i","f">>, <<"j","p","g">>, <<"p","n","g">>, <<"j","p","e","g">>,
     <<"p","d","f">>, <<"d","o","c","x">>, <<"c","s","v">>, <<"x","l","s">>,
     <<"p","p","t">>, <<"m","p","4">>, <<"w","e","b","m">>, <<"m","s","g">>,
     <<"e","m","l">>, <<"z","i","p">>, <<"x","m","l">>, <<"p","c","a","p">>}

\* What may happen to the multipart POST of upload_attachment.
UploadOutcomes == {"ok", "status_false", "raise"}

\* upload_attachment sends a request only for an existing file of an allowed type.
UploadSends(file_path) == file_path \in ExistingFiles /\ Ext(file_path) \in ALLOWED_EXTENSIONS

\* upload_attachment's result; every exception is caught inside it.
upload_attachment(file_path, outcome) == UploadSends(file_path) /\ outcome = "ok"

\* --------------------------------------------------- execute_all_from_csv
TestCsvFiles ==
    SeqsUpTo(TestRowSet, MaxRows)
      \cup {<<[test_case_name |-> "TC_A", status |-> str_Passed]>>}

TestRequiredCols == {"test_case_name", "status", "attachment"}

\* Lines 699-730: the path prompt, the file checks, the header check.
TestAskCsv ==
    /\ flow = "test"
    /\ pc = "prompt"
    /\ \E csv_file \in CsvPaths :
         IF csv_file = "" \/ csv_file = "missing.csv"
         THEN /\ pc' = "returned"
              /\ UNCHANGED csv_rows
         ELSE \E rows \in TestCsvFiles :
                /\ csv_rows' = rows
                /\ pc' = IF rows = <<>> \/ ~(TestRequiredCols \subseteq DOMAIN rows[1])
                         THEN "returned"
                         ELSE "validate"
    /\ i' = 1
    /\ UNCHANGED <<flow, defects_data, valid, matched, skipped, confirm,
                   success_count, fail_count, summary, calls, server, test_cases>>
    /\ UNCHANGED aux

\* Line 733: {tc.get('tc_name'): tc for tc in test_cases}; of two test cases
\* with one name the dict keeps the later.
test_lookup(tcs) ==
    [n \in {tcs[k].tc_name : k \in DOMAIN tcs} |->
        tcs[CHOOSE k \in DOMAIN tcs :
              /\ tcs[k].tc_name = n
              /\ \A m \in DOMAIN tcs : tcs[m].tc_name = n => m <= k]]

\* TestStatusInvalid comparing as the defect flow does, ignoring case.
TestStatusInvalid_IgnoreCase(status) == status = None \/ Lower(status) # str_passed

\* Line 745: status != 'Passed'
TestStatusInvalid(status) == status # str_Passed

\* TestDecision checking the attachment before it looks the test case up.
TestDecision_FileFirst(row, lookup) ==
    IF TestStatusInvalid(row.status) THEN "Invalid status"
    ELSE IF row.attachment = None THEN "raise"
    ELSE IF row.attachment \notin ExistingFiles THEN "File not found"
    ELSE IF Ext(row.attachment) \notin ALLOWED_EXTENSIONS THEN "Invalid file type"
    ELSE IF row.test_case_name \notin DOMAIN lookup THEN "Test case not found"
    ELSE "matched"

\* Lines 744-765: the decision on one row.  "raise" is the TypeError of
\* Path(None) on a row whose line has no attachment cell.
TestDecision(row, lookup) ==
    IF TestStatusInvalid(row.status) THEN "Invalid status"
    ELSE IF row.test_case_name \notin DOMAIN lookup THEN "Test case not found"
    ELSE IF row.attachment = None THEN "raise"
    ELSE IF row.attachment \notin ExistingFiles THEN "File not found"
    ELSE IF Ext(row.attachment) \notin ALLOWED_EXTENSIONS THEN "Invalid file type"
    ELSE "matched"

\* matched.append((tc_name, test_lookup[tc_name], attachment_path))
MatchedEntry(k, row, lookup) ==
    [row |-> k, tc_name |-> row.test_case_name, tc |-> lookup[row.test_case_name],
     att_path |-> row.attachment]

\* Lines 739-765, the body of the validation loop on row k: the two lists
\* after it.
TestLoopBody(k, row, lookup, mt, sk) ==
    IF TestDecision(row, lookup) = "matched"
    THEN [matched |-> Append(mt, MatchedEntry(k, row, lookup)), skipped |-> sk]
    ELSE [matched |-> mt,
          skipped |-> Append(sk, SkippedEntry(k, row.test_case_name, TestDecision(row, lookup)))]

\* Lines 739-765: one iteration of the validation loop; an exception leaves
\* the loop for the handler of line 860.
TestValidateRow ==
    /\ flow = "test"
    /\ pc = "validate"
    /\ i <= Len(csv_rows)
    /\ IF TestDecision(csv_rows[i], test_lookup(test_cases)) = "raise"
       THEN /\ pc' = "error"
            /\ UNCHANGED <<i, matched, skipped>>
       ELSE LET after == TestLoopBody(i, csv_rows[i], test_lookup(test_cases), matched, skipped)
            IN  /\ matched' = after.matched
                /\ skipped' = after.skipped
                /\ i' = i + 1
                /\ pc' = IF i = Len(csv_rows) THEN "preview" ELSE "validate"
    /\ UNCHANGED <<flow, csv_rows, defects_data, valid, confirm,
                   success_count, fail_count, summary, calls, server, test_cases>>
    /\ UNCHANGED aux

\* Lines 767-799: the preview table, then the return when nothing matched.
TestPreview ==
    /\ flow = "test"
    /\ pc = "preview"
    /\ pc' = IF matched = <<>> THEN "returned" ELSE "confirm"
    /\ UNCHANGED <<flow, csv_rows, i, defects_data, valid, matched, skipped, confirm,
                   success_count, fail_count, summary, calls, server, test_cases>>
    /\ UNCHANGED aux

\* rich's Confirm.ask: the answer, stripped and lower-cased, must be y or n
\* (anything else is asked again); the result is whether it is y.
TestAnswers == {str_y, <<"Y">>, str_n}
ConfirmAsk(input) == Lower(input) = str_y

\* Lines 802-811.
TestConfirm ==
    /\ flow = "test"
    /\ pc = "confirm"
    /\ \E input \in TestAnswers :
         /\ confirm' = input
         /\ pc' = IF ConfirmAsk(input) THEN "execute" ELSE "returned"
    /\ i' = 1
    /\ UNCHANGED <<flow, csv_rows, defects_data, valid, matched, skipped,
                   success_count, fail_count, summary, calls, server, test_cases>>
    /\ UNCHANGED aux

\* The write requests of one row.
ExecuteCall(e, result) ==
    [op |-> "execute_test", row |-> e.row, target |-> e.tc.testcase_id, result |-> result]
UploadCall(e, result) ==
    [op |-> "upload_attachment", row |-> e.row, target |-> e.tc.testcase_id, result |-> result]

\* `if not execution_id`: None and the empty string are falsy.
Falsy(v) == v = None \/ v = <<>>

\* The requests one iteration of the loop of lines 813-848 sends.
TestRowCalls(e, execution_id, upload_outcome) ==
    IF execution_id = <<"raise">> THEN <<ExecuteCall(e, "raise")>>
    ELSE IF Falsy(execution_id) THEN <<ExecuteCall(e, "none")>>
    ELSE <<ExecuteCall(e, "id")>>
           \o (IF UploadSends(e.att_path)
               THEN <<UploadCall(e, upload_attachment(e.att_path, upload_outcome))>>
               ELSE <<>>)

\* TestRowCounts with the fail_count += 1 of the except branch (line 848) lost.
TestRowCounts_RaiseUncounted(e, execution_id, upload_outcome, sc, fc) ==
    IF execution_id = <<"raise">> THEN [success |-> sc, fail |-> fc]
    ELSE IF Falsy(execution_id) THEN [success |-> sc, fail |-> fc + 1]
    ELSE IF upload_attachment(e.att_path, upload_outcome) THEN [success |-> sc + 1, fail |-> fc]
    ELSE [success |-> sc, fail |-> fc + 1]

\* TestRowCounts taking "Executed but upload failed" (line 842) for a success.
TestRowCounts_ExecutedIsSuccess(e, execution_id, upload_outcome, sc, fc) ==
    IF execution_id = <<"raise">> THEN [success |-> sc, fail |-> fc + 1]
    ELSE IF Falsy(execution_id) THEN [success |-> sc, fail |-> fc + 1]
    ELSE [success |-> sc + 1, fail |-> fc]

\* The two counters after one iteration: an exception (line 848), no
\* execution id (line 827) and a failed upload (line 843) each count one
\* failure; an upload that returned True counts one success (line 840).
TestRowCounts(e, execution_id, upload_outcome, sc, fc) ==
    IF execution_id = <<"raise">> THEN [success |-> sc, fail |-> fc + 1]
    ELSE IF Falsy(execution_id) THEN [success |-> sc, fail |-> fc + 1]
    ELSE IF upload_attachment(e.att_path, upload_outcome) THEN [success |-> sc + 1, fail |-> fc]
    ELSE [success |-> sc, fail |-> fc + 1]

\* TestRowNextPc without the try/except: an exception of execute_test leaves
\* the loop for the handler of line 860.
TestRowNextPc_RaiseAborts(next, n, execution_id) ==
    IF execution_id = <<"raise">> THEN "error"
    ELSE IF next > n THEN "summary" ELSE "execute"

\* Lines 816-848: the try/except around the body catches every exception of
\* the row, so the loop goes on to the next row, or to the summary after the last.
TestRowNextPc(next, n, execution_id) == IF next > n THEN "summary" ELSE "execute"

\* Lines 813-848: one iteration of the execution loop.
TestExecuteRow ==
    /\ flow = "test"
    /\ pc = "execute"
    /\ i <= Len(matched)
    /\ \E response \in ExecResponses, upload_outcome \in UploadOutcomes :
         LET execution_id == execute_test(response)
             after == TestRowCounts(matched[i], execution_id, upload_outcome,
                                    success_count, fail_count)
         IN  /\ calls' = calls \o TestRowCalls(matched[i], execution_id, upload_outcome)
             /\ success_count' = after.success
             /\ fail_count' = after.fail
             /\ i' = LoopAdvance(i, after.success > success_count)
             /\ pc' = TestRowNextPc(i', Len(matched), execution_id)
    /\ UNCHANGED <<flow, csv_rows, defects_data, valid, matched, skipped, confirm, summary,
                   server, test_cases>>
    /\ UNCHANGED aux

\* Lines 850-855.
TestSummary ==
    /\ flow = "test"
    /\ pc = "summary"
    /\ summary' = [printed |-> TRUE, success |-> success_count, failed |-> fail_count,
                   skipped |-> Len(skipped)]
    /\ pc' = "returned"
    /\ UNCHANGED <<flow, csv_rows, i, defects_data, valid, matched, skipped, confirm,
                   success_count, fail_count, calls, server, test_cases>>
    /\ UNCHANGED aux

Next ==
    \/ DefectAskCsv
    \/ DefectFetch
    \/ DefectValidateRow
    \/ DefectPreview
    \/ DefectConfirm
    \/ DefectExecuteRow
    \/ DefectSummary
    \/ TestAskCsv
    \/ TestValidateRow
    \/ TestPreview
    \/ TestConfirm
    \/ TestExecuteRow
    \/ TestSummary

Spec == Init /\ [][Next]_vars

\* Once the user has confirmed, the run needs nothing but the answers of the
\* remote API: every request returns or raises, so each iteration of the
\* execution loop and the summary after it are taken.
Fairness ==
    /\ WF_vars(DefectExecuteRow)
    /\ WF_vars(TestExecuteRow)
    /\ WF_vars(DefectSummary)
    /\ WF_vars(TestSummary)

FairSpec == Spec /\ Fairness

\* ================================================= request-level steps
\* The same two handlers followed request by request: the worker threads of
\* get_multiple_defects, and each write as a request sent and an answer
\* received.  The prompt and the CSV are taken as read.

\* The pool sizes a caller may pass; update_bulk_defects passes none (line 521).
PoolSizes == {1, 2, DefaultMaxWorkers}

\* Rows asking to close the open defect D1 or the unknown D3.
StepDefectRows == {DefectRow(id, str_close, str_rca) : id \in {"D1", "D3"}}

\* Rows asking to execute TC_A or TC_B with an attachment that exists.
StepTestRows == {TestRow("TC_A", str_Passed, path_a_png), TestRow("TC_B", str_Passed, path_b_PNG)}

StepStart ==
    /\ flow \in {"defect", "test"}
    /\ csv_rows \in SeqsUpTo(IF flow = "defect" THEN StepDefectRows ELSE StepTestRows, MaxRows)
    /\ csv_rows # <<>>
    /\ pc = IF flow = "defect" THEN "fetch" ELSE "validate"
    /\ i = 1
    /\ defects_data = <<>>
    /\ valid = <<>>
    /\ matched = <<>>
    /\ skipped = <<>>
    /\ confirm = NoAnswer
    /\ success_count = 0
    /\ fail_count = 0
    /\ summary = NoSummary
    /\ calls = <<>>
    /\ server = ServerInit
    /\ test_cases = IF flow = "test" THEN CycleTestCases ELSE <<>>
    /\ max_workers \in (IF flow = "defect" THEN PoolSizes ELSE {DefaultMaxWorkers})
    /\ futures = <<>>
    /\ yielded = <<>>
    /\ in_flight = {}
    /\ exec_id = None
    /\ g_op = "none"
    /\ g_in = <<>>
    /\ g_out = <<>>

StepInit == StepStart /\ MenuIdle

\* executor.submit(fetch_defect, did): a future, not yet picked by a worker.
\* transport_ok is what the network will do to its request.
Future(did, transport_ok) ==
    [defect_id |-> did, state |-> "pending", transport_ok |-> transport_ok, details |-> NoneDefect]

\* The futures in one of the three states.
FuturesIn(state) == {f \in DOMAIN futures : futures[f].state = state}

\* Line 294: one future per element of defect_ids, duplicates included.
PoolSubmit ==
    /\ flow = "defect"
    /\ pc = "fetch"
    /\ \E ok \in [DOMAIN csv_rows -> BOOLEAN] :
         /\ \A k \in DOMAIN csv_rows : csv_rows[k].defect_id \notin FlakyIds => ok[k]
         /\ futures' = [k \in DOMAIN csv_rows |-> Future(csv_rows[k].defect_id, ok[k])]
    /\ pc' = "collect"
    /\ UNCHANGED <<flow, csv_rows, i, defects_data, valid, matched, skipped, confirm,
                   success_count, fail_count, summary, calls, server, test_cases>>
    /\ UNCHANGED <<max_workers, yielded, in_flight, exec_id, g_op, g_in, g_out, menuvars>>

\* WorkerFree with a thread started for every submitted task.
WorkerFree_ThreadPerTask == TRUE

\* ThreadPoolExecutor(max_workers=max_workers), line 293: the pool runs at most
\* max_workers threads, each on one task at a time.
WorkerFree == Cardinality(FuturesIn("running")) < max_workers

\* A worker takes the oldest task of the queue and calls get_defect_details.
WorkerStart ==
    /\ FuturesIn("pending") # {}
    /\ WorkerFree
    /\ LET f == CHOOSE f \in FuturesIn("pending") : \A g \in FuturesIn("pending") : f <= g
       IN  futures' = [futures EXCEPT ![f].state = "running"]
    /\ UNCHANGED <<flow, pc, csv_rows, i, defects_data, valid, matched, skipped, confirm,
                   success_count, fail_count, summary, calls, server, test_cases>>
    /\ UNCHANGED <<max_workers, yielded, in_flight, exec_id, g_op, g_in, g_out, menuvars>>

\* Lines 290-291: get_defect_details returns in a worker; the future is done.
WorkerFinish ==
    /\ \E f \in FuturesIn("running") :
         futures' = [futures EXCEPT
                        ![f].state = "done",
                        ![f].details = get_defect_details(futures[f].defect_id,
                                                          futures[f].transport_ok)]
    /\ UNCHANGED <<flow, pc, csv_rows, i, defects_data, valid, matched, skipped, confirm,
                   success_count, fail_count, summary, calls, server, test_cases>>
    /\ UNCHANGED <<max_workers, yielded, in_flight, exec_id, g_op, g_in, g_out, menuvars>>

\* results[defect_id] = details
DictSet(d, k, v) == [x \in DOMAIN d \cup {k} |-> IF x = k THEN v ELSE d[x]]

\* Lines 296-303: as_completed hands out a finished future not handed out
\* before, and its result is stored under its id.  (fetch_defect raises
\* nothing, get_defect_details catching every exception, so the except branch
\* of line 300 stores the same None the try branch would.)
PoolCollect ==
    /\ pc = "collect"
    /\ \E f \in FuturesIn("done") :
         /\ \A k \in DOMAIN yielded : yielded[k] # f
         /\ yielded' = Append(yielded, f)
         /\ defects_data' = DictSet(defects_data, futures[f].defect_id, futures[f].details)
    /\ UNCHANGED <<flow, pc, csv_rows, i, valid, matched, skipped, confirm,
                   success_count, fail_count, summary, calls, server, test_cases>>
    /\ UNCHANGED <<max_workers, futures, in_flight, exec_id, g_op, g_in, g_out, menuvars>>

\* PoolDone leaving the loop with the first result.
PoolDone_FirstResult == yielded # <<>>

\* The for loop of line 296 ends when as_completed has handed out every
\* future, and the with block of line 293 waits for the pool on exit.
PoolDone == Len(yielded) = Len(futures)

\* Line 305: return results; the caller goes on to validation.
PoolReturn ==
    /\ pc = "collect"
    /\ PoolDone
    /\ pc' = "validate"
    /\ i' = 1
    /\ UNCHANGED <<flow, csv_rows, defects_data, valid, matched, skipped, confirm,
                   success_count, fail_count, summary, calls, server, test_cases>>
    /\ UNCHANGED aux

\* A write request on the wire: the operation and the CSV row it is for.
WriteRequest(op, row) == [op |-> op, row |-> row]

\* Line 601: api.update_defect(...) sends POST /defects/update (line 261) ...
UpdateIssue ==
    /\ flow = "defect"
    /\ pc = "execute"
    /\ i <= Len(valid)
    /\ in_flight' = in_flight \cup {WriteRequest("update_defect", valid[i].row)}
    /\ pc' = "await"
    /\ UNCHANGED <<flow, csv_rows, i, defects_data, valid, matched, skipped, confirm,
                   success_count, fail_count, summary, calls, server, test_cases>>
    /\ UNCHANGED <<max_workers, futures, yielded, exec_id, g_op, g_in, g_out, menuvars>>

\* ... and blocks until it is answered; lines 601-607 then count the row.
UpdateReturn ==
    /\ flow = "defect"
    /\ pc = "await"
    /\ WriteRequest("update_defect", valid[i].row) \in in_flight
    /\ in_flight' = in_flight \ {WriteRequest("update_defect", valid[i].row)}
    /\ \E outcome \in UpdateOutcomes :
         /\ calls' = Append(calls, UpdateCall(valid[i], outcome))
         /\ server' = IF outcome = "ok" /\ valid[i].defect_id \in DOMAIN server
                      THEN [server EXCEPT ![valid[i].defect_id] = valid[i].status]
                      ELSE server
         /\ IF update_defect(outcome)
            THEN success_count' = success_count + 1 /\ UNCHANGED fail_count
            ELSE fail_count' = fail_count + 1 /\ UNCHANGED success_count
         /\ i' = LoopAdvance(i, update_defect(outcome))
    /\ pc' = IF i' > Len(valid) THEN "summary" ELSE "execute"
    /\ UNCHANGED <<flow, csv_rows, defects_data, valid, matched, skipped, confirm, summary,
                   test_cases>>
    /\ UNCHANGED <<max_workers, futures, yielded, exec_id, g_op, g_in, g_out, menuvars>>

\* Line 818: api.execute_test(...) sends POST /test_case_execution/execute ...
ExecIssue ==
    /\ flow = "test"
    /\ pc = "execute"
    /\ i <= Len(matched)
    /\ in_flight' = in_flight \cup {WriteRequest("execute_test", matched[i].row)}
    /\ pc' = "await"
    /\ UNCHANGED <<flow, csv_rows, i, defects_data, valid, matched, skipped, confirm,
                   success_count, fail_count, summary, calls, server, test_cases>>
    /\ UNCHANGED <<max_workers, futures, yielded, exec_id, g_op, g_in, g_out, menuvars>>

\* ... and blocks until it is answered.  Lines 825-828 and 845-848: without an
\* execution id the row is counted and the loop goes on; with one, the
\* upload of line 831 is next.
ExecReturn ==
    /\ flow = "test"
    /\ pc = "await"
    /\ WriteRequest("execute_test", matched[i].row) \in in_flight
    /\ in_flight' = in_flight \ {WriteRequest("execute_test", matched[i].row)}
    /\ \E response \in ExecResponses :
         LET id == execute_test(response)
             after == TestRowCounts(matched[i], id, "ok", success_count, fail_count)
         IN  IF id = <<"raise">> \/ Falsy(id)
             THEN /\ calls' = calls \o TestRowCalls(matched[i], id, "ok")
                  /\ success_count' = after.success
                  /\ fail_count' = after.fail
                  /\ i' = LoopAdvance(i, FALSE)
                  /\ pc' = TestRowNextPc(i', Len(matched), id)
                  /\ UNCHANGED exec_id
             ELSE /\ calls' = Append(calls, ExecuteCall(matched[i], "id"))
                  /\ exec_id' = id
                  /\ pc' = "upload"
                  /\ UNCHANGED <<i, success_count, fail_count>>
    /\ UNCHANGED <<flow, csv_rows, defects_data, valid, matched, skipped, confirm, summary,
                   server, test_cases>>
    /\ UNCHANGED <<max_workers, futures, yielded, g_op, g_in, g_out, menuvars>>

\* Line 831: api.upload_attachment(...) sends the multipart POST (line 284) ...
UploadIssue ==
    /\ flow = "test"
    /\ pc = "upload"
    /\ UploadSends(matched[i].att_path)
    /\ in_flight' = in_flight \cup {WriteRequest("upload_attachment", matched[i].row)}
    /\ pc' = "await_upload"
    /\ UNCHANGED <<flow, csv_rows, i, defects_data, valid, matched, skipped, confirm,
                   success_count, fail_count, summary, calls, server, test_cases>>
    /\ UNCHANGED <<max_workers, futures, yielded, exec_id, g_op, g_in, g_out, menuvars>>

\* ... and blocks until it is answered; lines 838-843 then count the row.
UploadReturn ==
    /\ flow = "test"
    /\ pc = "await_upload"
    /\ WriteRequest("upload_attachment", matched[i].row) \in in_flight
    /\ in_flight' = in_flight \ {WriteRequest("upload_attachment", matched[i].row)}
    /\ \E upload_outcome \in UploadOutcomes :
         LET after == TestRowCounts(matched[i], exec_id, upload_outcome,
                                    success_count, fail_count)
         IN  /\ calls' = Append(calls, UploadCall(matched[i],
                                  upload_attachment(matched[i].att_path, upload_outcome)))
             /\ success_count' = after.success
             /\ fail_count' = after.fail
             /\ i' = LoopAdvance(i, after.success > success_count)
             /\ pc' = TestRowNextPc(i', Len(matched), exec_id)
    /\ exec_id' = None
    /\ UNCHANGED <<flow, csv_rows, defects_data, valid, matched, skipped, confirm, summary,
                   server, test_cases>>
    /\ UNCHANGED <<max_workers, futures, yielded, g_op, g_in, g_out, menuvars>>

StepNext ==
    \/ PoolSubmit
    \/ WorkerStart
    \/ WorkerFinish
    \/ PoolCollect
    \/ PoolReturn
    \/ DefectValidateRow
    \/ DefectPreview
    \/ DefectConfirm
    \/ UpdateIssue
    \/ UpdateReturn
    \/ DefectSummary
    \/ TestValidateRow
    \/ TestPreview
    \/ TestConfirm
    \/ ExecIssue
    \/ ExecReturn
    \/ UploadIssue
    \/ UploadReturn
    \/ TestSummary

StepSpec == StepInit /\ [][StepNext]_vars

\* ------------------------------------------------ update_single_defect
\* What the user types at "Enter defect ID to update": nothing, or an id.
SingleIds == {"", "D1", "D2", "D3"}

\* The check of line 404 passing only the spelling 'close'.
SingleAlreadyClosed_CaseSensitive(defect) == defect.status = str_close

\* Lines 399, 404: current_status = defect.get('status', '').lower();
\* current_status == 'close'
SingleAlreadyClosed(defect) == Lower(defect.status) = str_close

\* defect.py, lines 383-407: the id prompt, the fetch, the status check.
SingleAskId ==
    /\ flow = "single"
    /\ pc = "ask_id"
    /\ \E id \in SingleIds, transport_ok \in BOOLEAN :
         LET defect == get_defect_details(id, transport_ok) IN
           IF id = "" \/ defect.isNone \/ SingleAlreadyClosed(defect)
           THEN /\ pc' = "returned"
                /\ single' = [single EXCEPT !.defect_id = id, !.defect = defect]
           ELSE /\ pc' = "select_rca"
                /\ single' = [single EXCEPT !.defect_id = id, !.defect = defect]
    /\ UNCHANGED <<flow, csv_rows, i, defects_data, valid, matched, skipped, confirm,
                   success_count, fail_count, summary, calls, server, test_cases>>
    /\ UNCHANGED <<max_workers, futures, yielded, in_flight, exec_id, g_op, g_in, g_out>>
    /\ UNCHANGED <<stack, wait, exit_code, last_interrupt_time, now, config, api, sent, event>>

\* The numbers the user may type at "Select RCA option": each option, and one
\* below and one above the range.
Selections == 0 .. Len(RCA_OPTIONS) + 1

\* defect.py, lines 423-432: the selection loop, left only with an option of
\* the list.
SingleSelectRca ==
    /\ flow = "single"
    /\ pc = "select_rca"
    /\ \E selection \in Selections :
         IF 1 <= selection /\ selection <= Len(RCA_OPTIONS)
         THEN /\ single' = [single EXCEPT !.rca = RCA_OPTIONS[selection]]
              /\ pc' = "confirm"
         ELSE /\ UNCHANGED single
              /\ pc' = "select_rca"
    /\ UNCHANGED <<flow, csv_rows, i, defects_data, valid, matched, skipped, confirm,
                   success_count, fail_count, summary, calls, server, test_cases>>
    /\ UNCHANGED <<max_workers, futures, yielded, in_flight, exec_id, g_op, g_in, g_out>>
    /\ UNCHANGED <<stack, wait, exit_code, last_interrupt_time, now, config, api, sent, event>>

\* What the user types at "Proceed? (y/n)"; nothing is the default, "n".
SingleAnswers == {<<>>, str_n, str_y, <<"Y">>, str_yes}

\* The arguments of line 447: api.update_defect(defect_id, status, rca, defect),
\* status being 'close' (line 410).
SingleEntry ==
    [row |-> 0, defect_id |-> single.defect_id, status |-> str_close, rca |-> single.rca,
     defect |-> single.defect]

\* defect.py, lines 439-454: the confirmation and, on "y", the update.
SingleConfirm ==
    /\ flow = "single"
    /\ pc = "confirm"
    /\ \E input \in SingleAnswers, outcome \in UpdateOutcomes :
         /\ confirm' = PromptAsk(input, str_n)
         /\ IF Lower(confirm') # str_y
            THEN UNCHANGED <<calls, server>>
            ELSE /\ calls' = Append(calls, UpdateCall(SingleEntry, outcome))
                 /\ server' = IF outcome = "ok"
                              THEN [server EXCEPT ![single.defect_id] = str_close]
                              ELSE server
    /\ pc' = "returned"
    /\ UNCHANGED <<flow, csv_rows, i, defects_data, valid, matched, skipped,
                   success_count, fail_count, summary, test_cases>>
    /\ UNCHANGED aux

\* The two ways of closing a defect, handler by handler: update_single_defect,
\* and update_bulk_defects on a CSV whose rows name the open defect D1 or the
\* closed defect D2 with an RCA text that is or is not an option of the list.
RcaRows == {DefectRow(id, str_close, rca) : id \in {"D1", "D2"}, rca \in {str_rca, str_code_bug}}

RcaInit ==
    /\ flow \in {"single", "defect"}
    /\ csv_rows \in (IF flow = "single" THEN {<<>>} ELSE SeqsUpTo(RcaRows, MaxRows) \ {<<>>})
    /\ pc = IF flow = "single" THEN "ask_id" ELSE "fetch"
    /\ i = 1
    /\ defects_data = <<>>
    /\ valid = <<>>
    /\ matched = <<>>
    /\ skipped = <<>>
    /\ confirm = NoAnswer
    /\ success_count = 0
    /\ fail_count = 0
    /\ summary = NoSummary
    /\ calls = <<>>
    /\ server = ServerInit
    /\ test_cases = <<>>
    /\ AuxIdle

RcaNext ==
    \/ SingleAskId
    \/ SingleSelectRca
    \/ SingleConfirm
    \/ DefectFetch
    \/ DefectValidateRow
    \/ DefectPreview
    \/ DefectConfirm
    \/ DefectExecuteRow
    \/ DefectSummary

RcaSpec == RcaInit /\ [][RcaNext]_vars

\* ======================================================== the menus
\* The interactive layer: main.py's menu, the two modules' menus and the
\* functions they call.  `stack` holds the functions entered and not yet
\* left; the innermost waits for the user (`wait`): at a prompt, for a list to
\* load, or at a "Press Enter" of an error handler (ack_*) or of a notice.
\* The user chooses, presses Enter or presses Ctrl+C; a request of the gateway
\* returns or raises; the clock advances.

\* The clock advances at most this many seconds.
MaxTicks == 3

\* What config.json holds when a module is entered: no such file, text that
\* is no JSON, an object lacking one of the two keys, a JSON number, or an
\* object with both keys.
ConfigKinds == {"absent", "invalid_json", "no_token", "no_project_id", "json_number",
                "object_ok"}

\* load_config (defect.py 88-108, test_cycle.py 86-113): sys.exit(1) for a
\* missing file, for a JSONDecodeError and for `'token' not in config or
\* 'project_id' not in config`; the `in` test of a number raises TypeError,
\* which the function does not catch.
load_config(kind) ==
    CASE kind \in {"absent", "invalid_json", "no_token", "no_project_id"} -> "SystemExit(1)"
      [] kind = "json_number" -> "Exception"
      [] OTHER -> "config"

Top(st) == st[Len(st)]
Front(st) == SubSeq(st, 1, Len(st) - 1)

\* isinstance(exc, class): MainMenuRequest derives from Exception;
\* KeyboardInterrupt and SystemExit derive from BaseException only.
IsInstance(exc, class) ==
    \/ exc = class
    \/ class = "Exception" /\ exc = "MainMenuRequest"

\* One except clause: the class it names and what its body does.
Clause(class, does) == [class |-> class, does |-> does]

\* main.py, lines 53-60: main().
MainHandlers ==
    << << Clause("KeyboardInterrupt", "exit0"), Clause("Exception", "exit1") >> >>

\* main.py, lines 43-48: show_main_menu.
MainMenuHandlers ==
    << << Clause("KeyboardInterrupt", "exit0"), Clause("Exception", "ack_loop") >> >>

\* test_cycle.py, lines 323-328: show_test_cycle_menu.
TestCycleMenuHandlers ==
    << << Clause("KeyboardInterrupt", "return"), Clause("Exception", "ack_loop") >> >>

\* test_cycle.py, lines 391-405 (and 479-493): the try around show_cycle_menu,
\* inside the try of the whole function.
CycleListHandlers ==
    << << Clause("MainMenuRequest", "reraise") >>,
       << Clause("MainMenuRequest", "return"),
          Clause("KeyboardInterrupt", "handle_interrupt_return"),
          Clause("Exception", "ack_return") >> >>

\* show_cycle_menu with the generic clause ahead of the one for MainMenuRequest.
CycleMenuHandlers_GenericFirst ==
    << << Clause("Exception", "ack_loop"),
          Clause("MainMenuRequest", "reraise"),
          Clause("KeyboardInterrupt", "handle_interrupt_return") >> >>

\* test_cycle.py, lines 576-584: show_cycle_menu.
CycleMenuHandlers ==
    << << Clause("MainMenuRequest", "reraise"),
          Clause("KeyboardInterrupt", "handle_interrupt_return"),
          Clause("Exception", "ack_loop") >> >>

\* test_cycle.py, lines 667-673, 857-863, 902-908: the three cycle actions.
CycleActionHandlers ==
    << << Clause("KeyboardInterrupt", "handle_interrupt_return"),
          Clause("Exception", "ack_return") >> >>

\* defect.py, lines 652-657: show_defect_menu.
DefectMenuHandlers ==
    << << Clause("KeyboardInterrupt", "return"), Clause("Exception", "ack_loop") >> >>

\* defect.py, lines 370-376, 456-462, 616-622: the three defect actions.
DefectActionHandlers ==
    << << Clause("KeyboardInterrupt", "return"), Clause("Exception", "ack_return") >> >>

CycleLists == {"select_cycle_interactive", "search_and_select_cycle_interactive"}
CycleActions == {"execute_single_from_list", "execute_all_from_csv", "search_test_in_cycle"}
DefectActions == {"search_defect_by_id", "update_single_defect", "update_bulk_defects"}
ModuleEntries == {"run_test_cycle_management", "run_defect_management"}

\* The try statements of a function, innermost first; the entry points of the
\* modules have none.
Handlers(f) ==
    CASE f = "main" -> MainHandlers
      [] f = "show_main_menu" -> MainMenuHandlers
      [] f = "show_test_cycle_menu" -> TestCycleMenuHandlers
      [] f \in CycleLists -> CycleListHandlers
      [] f = "show_cycle_menu" -> CycleMenuHandlers
      [] f \in CycleActions -> CycleActionHandlers
      [] f = "show_defect_menu" -> DefectMenuHandlers
      [] f \in DefectActions -> DefectActionHandlers
      [] OTHER -> << >>

\* The try a function's own prompts and requests are in: a cycle list asks
\* outside the try around show_cycle_menu.
PromptLevel(f) == IF f \in CycleLists THEN 2 ELSE 1

\* The try a function calls the next function in.
CallLevel(f) == 1

\* The first except clause of a try that takes the exception, 0 when none does.
FirstMatch(clauses, exc) ==
    LET hits == {k \in DOMAIN clauses : IsInstance(exc, clauses[k].class)}
    IN  IF hits = {} THEN 0 ELSE CHOOSE k \in hits : \A j \in hits : k <= j

\* test_cycle.py, lines 42-55: handle_interrupt at time t.
handle_interrupt(last, t) ==
    IF t - last < DebounceWindow
    THEN [exits |-> TRUE, last |-> last]
    ELSE [exits |-> FALSE, last |-> t]

\* Where the program is after an input was handled.
Outcome(st, w, code, last, handled) ==
    [stack |-> st, wait |-> w, exit_code |-> code, last |-> last, handled |-> handled]

\* The exit code of an exception nothing caught: SystemExit's own, or 1 after
\* the traceback.
ExitCodeOf(exc) == IF exc = "SystemExit(0)" THEN 0 ELSE 1

RECURSIVE Resume(_, _, _)
\* A function returned to the function st ends with: a menu's loop goes round
\* (show_cycle_menu loads the test cases again, line 516), an entry point
\* returns in its turn, and the process ends with code 0 once main returns.
Resume(st, last, handled) ==
    IF st = <<>> THEN Outcome(<<>>, "exited", 0, last, handled)
    ELSE IF Top(st) \in ModuleEntries \cup {"main"} THEN Resume(Front(st), last, handled)
    ELSE Outcome(st, IF Top(st) = "show_cycle_menu" THEN "loading" ELSE "prompt", -1, last,
                 handled)

RECURSIVE Raise(_, _, _, _, _, _)
\* The exception exc raised at time t in the function st ends with, inside its
\* try number pos (past the last: in an except body or outside every try).
Raise(st, exc, pos, last, t, handled) ==
    IF st = <<>> THEN Outcome(<<>>, "exited", ExitCodeOf(exc), last, handled)
    ELSE IF pos > Len(Handlers(Top(st)))
    THEN Raise(Front(st), exc, IF Len(st) > 1 THEN CallLevel(st[Len(st) - 1]) ELSE 1,
               last, t, handled)
    ELSE LET k == FirstMatch(Handlers(Top(st))[pos], exc) IN
         IF k = 0 THEN Raise(st, exc, pos + 1, last, t, handled)
         ELSE LET c == Handlers(Top(st))[pos][k]
                  h == Append(handled, [frame |-> Top(st), class |-> c.class, does |-> c.does])
              IN  CASE c.does = "reraise" -> Raise(st, exc, pos + 1, last, t, h)
                    [] c.does = "exit0" -> Raise(st, "SystemExit(0)", pos + 1, last, t, h)
                    [] c.does = "exit1" -> Raise(st, "SystemExit(1)", pos + 1, last, t, h)
                    [] c.does = "handle_interrupt_return" ->
                         IF handle_interrupt(last, t).exits
                         THEN Raise(st, "SystemExit(0)", pos + 1, last, t, h)
                         ELSE Resume(Front(st), handle_interrupt(last, t).last, h)
                    [] c.does = "return" -> Resume(Front(st), last, h)
                    [] OTHER -> Outcome(st, c.does, -1, last, h)

\* The program waits in the function st ends with.
Waits(st, w) == Outcome(st, w, -1, last_interrupt_time, <<>>)

\* The input is handled: the program moves on, and `event` keeps the input
\* with the state it arrived in.
Take(outcome, kind, choice) ==
    /\ stack' = outcome.stack
    /\ wait' = outcome.wait
    /\ exit_code' = outcome.exit_code
    /\ last_interrupt_time' = outcome.last
    /\ event' = [kind |-> kind, choice |-> choice, stack |-> stack, wait |-> wait,
                 last |-> last_interrupt_time, at |-> now, handled |-> outcome.handled]

MenuInit ==
    /\ flow = "menu"
    /\ pc = "returned"
    /\ csv_rows = <<>>
    /\ i = 1
    /\ defects_data = <<>>
    /\ valid = <<>>
    /\ matched = <<>>
    /\ skipped = <<>>
    /\ confirm = NoAnswer
    /\ success_count = 0
    /\ fail_count = 0
    /\ summary = NoSummary
    /\ calls = <<>>
    /\ server = ServerInit
    /\ test_cases = <<>>
    /\ GatewayIdle
    /\ single = NoSingle
    /\ stack = <<"main", "show_main_menu">>
    /\ wait = "prompt"
    /\ exit_code = -1
    /\ last_interrupt_time = NeverInterrupted
    /\ now = StartTime
    /\ config \in ConfigKinds
    /\ api = "none"
    /\ sent = FALSE
    /\ event = NoEvent

\* The program runs and the function f waits in the way w.
At(f, w) == exit_code = -1 /\ stack # <<>> /\ Top(stack) = f /\ wait = w

\* run_test_cycle_management (lines 911-929) and run_defect_management
\* (lines 660-673): load_config, then the API client, then the module's menu.
EnterModule(entry, menu, client, choice) ==
    LET loaded == load_config(config) IN
    IF loaded = "config"
    THEN /\ Take(Waits(stack \o <<entry, menu>>, "prompt"), "choice", choice)
         /\ api' = client
    ELSE /\ Take(Raise(Append(stack, entry), loaded, 1, last_interrupt_time, now, <<>>),
                 "choice", choice)
         /\ UNCHANGED api

\* main.py, lines 29-41: the choice at the main menu.
MainMenuChoose ==
    /\ At("show_main_menu", "prompt")
    /\ \E choice \in {0, 1, 2} :
         CASE choice = 1 -> EnterModule("run_test_cycle_management", "show_test_cycle_menu",
                                        "test_cycle", choice)
           [] choice = 2 -> EnterModule("run_defect_management", "show_defect_menu",
                                        "defect", choice)
           [] OTHER -> /\ Take(Raise(stack, "SystemExit(0)", 1, last_interrupt_time, now, <<>>),
                               "choice", choice)
                       /\ UNCHANGED api
    /\ UNCHANGED <<now, config, sent, single>>
    /\ UNCHANGED <<flowvars, gatewayvars>>

\* test_cycle.py, lines 314-322: the choice at the test cycle menu.  Choice 1
\* asks for the cycles at once (line 339); choice 2 asks for the search term.
TestCycleMenuChoose ==
    /\ At("show_test_cycle_menu", "prompt")
    /\ \E choice \in {0, 1, 2} :
         CASE choice = 1 -> Take(Waits(Append(stack, "select_cycle_interactive"), "loading"),
                                 "choice", choice)
           [] choice = 2 -> Take(Waits(Append(stack, "search_and_select_cycle_interactive"),
                                       "term"), "choice", choice)
           [] OTHER -> Take(Resume(Front(stack), last_interrupt_time, <<>>), "choice", choice)
    /\ UNCHANGED <<now, config, api, sent, single>>
    /\ UNCHANGED <<flowvars, gatewayvars>>

\* test_cycle.py, lines 414-416: the search term; blank cancels.
SearchTerm ==
    /\ At("search_and_select_cycle_interactive", "term")
    /\ \E blank \in BOOLEAN :
         IF blank THEN Take(Resume(Front(stack), last_interrupt_time, <<>>), "term", -1)
         ELSE Take(Waits(stack, "loading"), "term", -1)
    /\ UNCHANGED <<now, config, api, sent, single>>
    /\ UNCHANGED <<flowvars, gatewayvars>>

\* What a list request gives: rows, nothing, or an exception (list_cycles and
\* list_test_cases have no try around _request).
ListResults == {"rows", "nothing", "raises"}

\* test_cycle.py, lines 339-344 and 419-431 (list_cycles), 516-521
\* (list_test_cases): the list arrives, or the notice that there is none, or
\* the exception.
ListLoad ==
    /\ exit_code = -1 /\ stack # <<>> /\ wait = "loading"
    /\ \E result \in ListResults :
         CASE result = "rows" -> Take(Waits(stack, "prompt"), "response", -1)
           [] result = "nothing" -> Take(Waits(stack, "notice"), "response", -1)
           [] OTHER -> Take(Raise(stack, "Exception", PromptLevel(Top(stack)),
                                  last_interrupt_time, now, <<>>), "response", -1)
    /\ sent' = TRUE
    /\ UNCHANGED <<now, config, api, single>>
    /\ UNCHANGED <<flowvars, gatewayvars>>

\* test_cycle.py, lines 376-395 and 464-483: the choice at a cycle list; 5 is a
\* number past the list's end.
CycleListChoose ==
    /\ stack # <<>> /\ Top(stack) \in CycleLists /\ exit_code = -1 /\ wait = "prompt"
    /\ \E choice \in {9, 0, 1, 5} :
         CASE choice = 9 -> Take(Resume(Front(stack), last_interrupt_time, <<>>),
                                 "choice", choice)
           [] choice = 0 -> Take(Raise(stack, "MainMenuRequest", PromptLevel(Top(stack)),
                                       last_interrupt_time, now, <<>>), "choice", choice)
           [] choice = 5 -> Take(Waits(stack, "notice_loop"), "choice", choice)
           [] OTHER -> Take(Waits(Append(stack, "show_cycle_menu"), "loading"),
                            "choice", choice)
    /\ UNCHANGED <<now, config, api, sent, single>>
    /\ UNCHANGED <<flowvars, gatewayvars>>

\* The function a choice of the cycle menu calls.
CycleActionOf(choice) ==
    CASE choice = 1 -> "execute_single_from_list"
      [] choice = 2 -> "execute_all_from_csv"
      [] OTHER -> "search_test_in_cycle"

\* test_cycle.py, lines 563-574: the choice at the cycle menu.
CycleMenuChoose ==
    /\ At("show_cycle_menu", "prompt")
    /\ \E choice \in {0, 1, 2, 3, 9} :
         CASE choice = 9 -> Take(Resume(Front(stack), last_interrupt_time, <<>>),
                                 "choice", choice)
           [] choice = 0 -> Take(Raise(stack, "MainMenuRequest", 1, last_interrupt_time, now,
                                       <<>>), "choice", choice)
           [] OTHER -> Take(Waits(Append(stack, CycleActionOf(choice)), "prompt"),
                            "choice", choice)
    /\ UNCHANGED <<now, config, api, sent, single>>
    /\ UNCHANGED <<flowvars, gatewayvars>>

\* The function a choice of the defect menu calls.
DefectActionOf(choice) ==
    CASE choice = 1 -> "search_defect_by_id"
      [] choice = 2 -> "update_single_defect"
      [] OTHER -> "update_bulk_defects"

\* defect.py, lines 641-651: the choice at the defect menu.
DefectMenuChoose ==
    /\ At("show_defect_menu", "prompt")
    /\ \E choice \in {0, 1, 2, 3} :
         IF choice = 0
         THEN Take(Resume(Front(stack), last_interrupt_time, <<>>), "choice", choice)
         ELSE Take(Waits(Append(stack, DefectActionOf(choice)), "prompt"), "choice", choice)
    /\ UNCHANGED <<now, config, api, sent, single>>
    /\ UNCHANGED <<flowvars, gatewayvars>>

\* A cycle action or a defect action goes on from its prompt: it returns
\* (cancelled or done), or something in its try raises.
ActionStep ==
    /\ stack # <<>> /\ Top(stack) \in CycleActions \cup DefectActions
    /\ exit_code = -1 /\ wait = "prompt"
    /\ \E raises \in BOOLEAN :
         IF raises
         THEN Take(Raise(stack, "Exception", 1, last_interrupt_time, now, <<>>), "input", -1)
         ELSE Take(Resume(Front(stack), last_interrupt_time, <<>>), "input", -1)
    /\ UNCHANGED <<now, config, api, sent, single>>
    /\ UNCHANGED <<flowvars, gatewayvars>>

\* Enter at a "Press Enter to continue...": the loop of a menu goes round
\* (ack_loop, notice_loop) or the function returns (ack_return, notice).
PressEnter ==
    /\ exit_code = -1 /\ stack # <<>>
    /\ wait \in {"ack_loop", "ack_return", "notice", "notice_loop"}
    /\ IF wait \in {"ack_loop", "notice_loop"}
       THEN Take(Resume(stack, last_interrupt_time, <<>>), "enter", -1)
       ELSE Take(Resume(Front(stack), last_interrupt_time, <<>>), "enter", -1)
    /\ UNCHANGED <<now, config, api, sent, single>>
    /\ UNCHANGED <<flowvars, gatewayvars>>

\* The try the waiting function is in: an input() of an except body is in none.
WaitLevel(f, w) ==
    IF w \in {"ack_loop", "ack_return"} THEN Len(Handlers(f)) + 1 ELSE PromptLevel(f)

\* Ctrl+C: KeyboardInterrupt is raised where the program waits.
KeyboardInterrupt ==
    /\ exit_code = -1 /\ stack # <<>>
    /\ Take(Raise(stack, "KeyboardInterrupt", WaitLevel(Top(stack), wait),
                  last_interrupt_time, now, <<>>), "interrupt", -1)
    /\ UNCHANGED <<now, config, api, sent, single>>
    /\ UNCHANGED <<flowvars, gatewayvars>>

\* A second passes.
Tick ==
    /\ exit_code = -1
    /\ now < StartTime + MaxTicks
    /\ now' = now + 1
    /\ UNCHANGED <<stack, wait, exit_code, last_interrupt_time, config, api, sent, single,
                   event>>
    /\ UNCHANGED <<flowvars, gatewayvars>>

MenuNext ==
    \/ MainMenuChoose
    \/ TestCycleMenuChoose
    \/ SearchTerm
    \/ ListLoad
    \/ CycleListChoose
    \/ CycleMenuChoose
    \/ DefectMenuChoose
    \/ ActionStep
    \/ PressEnter
    \/ KeyboardInterrupt
    \/ Tick

MenuSpec == MenuInit /\ [][MenuNext]_vars

\* ============================================ Ctrl+C during a bulk run
\* The request-level steps of the two bulk flows, entered from their menus,
\* with a Ctrl+C that may arrive once the run is confirmed and executing.
\* handle_interrupt, which only the test-cycle module calls, may have recorded
\* an interrupt a second before the start.

\* The functions entered when update_bulk_defects / execute_all_from_csv runs.
BulkStack(f) ==
    IF f = "defect"
    THEN <<"main", "show_main_menu", "run_defect_management", "show_defect_menu",
           "update_bulk_defects">>
    ELSE <<"main", "show_main_menu", "run_test_cycle_management", "show_test_cycle_menu",
           "select_cycle_interactive", "show_cycle_menu", "execute_all_from_csv">>

IntInit ==
    /\ StepStart
    /\ max_workers = DefaultMaxWorkers
    /\ single = NoSingle
    /\ stack = BulkStack(flow)
    /\ wait = "running"
    /\ exit_code = -1
    /\ last_interrupt_time \in (IF flow = "test" THEN {NeverInterrupted, StartTime - 1}
                                ELSE {NeverInterrupted})
    /\ now = StartTime
    /\ config = "object_ok"
    /\ api = IF flow = "defect" THEN "defect" ELSE "test_cycle"
    /\ sent = FALSE
    /\ event = NoEvent

\* The positions of the execution loops (defect.py 599-607, test_cycle.py
\* 813-848): between two rows, or inside a request.
Executing == pc \in {"execute", "await", "upload", "await_upload"}

\* An interrupt handler that lets the loop go on with the row.
AfterInterrupt_Resumes(p) == IF p \in {"await", "execute"} THEN "execute" ELSE "upload"

\* The except clauses of defect.py 616-618 and test_cycle.py 857-859 are
\* those of the whole function: the loop is left.
AfterInterrupt(p) == "interrupted"

\* Ctrl+C while the loop runs: KeyboardInterrupt is raised between two rows or
\* inside the request in flight, which is abandoned (the remote API may have
\* performed it or not); the per-row try of test_cycle.py 816-848 has only
\* `except Exception`, so the function's clause takes it.
BulkInterrupt ==
    /\ Executing
    /\ exit_code = -1
    /\ event.kind = "none"
    /\ Take(Raise(stack, "KeyboardInterrupt", 1, last_interrupt_time, now, <<>>),
            "interrupt", -1)
    /\ pc' = AfterInterrupt(pc)
    /\ in_flight' = {}
    /\ \E performed \in BOOLEAN :
         server' = IF performed /\ flow = "defect" /\ pc = "await"
                      /\ valid[i].defect_id \in DOMAIN server
                   THEN [server EXCEPT ![valid[i].defect_id] = valid[i].status]
                   ELSE server
    /\ UNCHANGED <<flow, csv_rows, i, defects_data, valid, matched, skipped, confirm,
                   success_count, fail_count, summary, calls, test_cases>>
    /\ UNCHANGED <<max_workers, futures, yielded, exec_id, g_op, g_in, g_out>>
    /\ UNCHANGED <<now, config, api, sent, single>>

IntNext == StepNext \/ BulkInterrupt

IntSpec == IntInit /\ [][IntNext]_vars


\* ============================================== gateway operations alone
\* Each operation of the two API clients applied once, to arguments and to an
\* answer of the server drawn from small sets.

\* JSON values as Python holds them: None, a str, an int, a bool, a list of
\* scalars, a dict.
PyValue(t, s, n, b, l) == [t |-> t, s |-> s, n |-> n, b |-> b, l |-> l]
PyNone == PyValue("none", <<>>, 0, FALSE, <<>>)
PyStr(s) == PyValue("str", s, 0, FALSE, <<>>)
PyInt(n) == PyValue("int", <<>>, n, FALSE, <<>>)
PyBool(b) == PyValue("bool", <<>>, 0, b, <<>>)
PyList(l) == PyValue("list", <<>>, 0, FALSE, l)
PyDict == PyValue("dict", <<>>, 0, FALSE, <<>>)

Digits == <<"0", "1", "2", "3", "4", "5", "6", "7", "8", "9">>

\* str(n) of a natural number.
RECURSIVE IntToStr(_)
IntToStr(n) ==
    IF n < 10 THEN <<Digits[n + 1]>> ELSE Append(IntToStr(n \div 10), Digits[(n % 10) + 1])

\* str(value) of a scalar.
PyStrOf(value) ==
    CASE value.t = "none" -> <<"N", "o", "n", "e">>
      [] value.t = "str"  -> value.s
      [] value.t = "int"  -> IntToStr(value.n)
      [] value.t = "bool" -> IF value.b THEN <<"T", "r", "u", "e">>
                             ELSE <<"F", "a", "l", "s", "e">>

\* sep.join(texts)
RECURSIVE Join(_, _)
Join(texts, sep) ==
    IF texts = <<>> THEN <<>>
    ELSE IF Len(texts) = 1 THEN texts[1]
    ELSE texts[1] \o sep \o Join(Tail(texts), sep)

\* FormValue joining the elements with a comma and a space.
FormValue_CommaSpace(value) ==
    IF value.t = "none" THEN <<>>
    ELSE IF value.t = "list"
         THEN Join([k \in DOMAIN value.l |-> PyStrOf(value.l[k])], <<",", " ">>)
    ELSE PyStrOf(value)

\* Lines 240-249: what the loop stores for a value that is not a dict.
FormValue(value) ==
    IF value.t = "none" THEN <<>>
    ELSE IF value.t = "list"
         THEN (IF value.l # <<>>
               THEN Join([k \in DOMAIN value.l |-> PyStrOf(value.l[k])], <<",">>)
               ELSE <<>>)
    ELSE PyStrOf(value)

\* CopiedKeys leaving out the fields that are None as well.
CopiedKeys_SkipNone(defect_data) ==
    {key \in DOMAIN defect_data : defect_data[key].t \notin {"dict", "none"}}

\* Lines 245-247: a dict is skipped.
CopiedKeys(defect_data) == {key \in DOMAIN defect_data : defect_data[key].t # "dict"}

\* Lines 236-249: form_data after the copy loop.
CopyFields(defect_data) ==
    [key \in CopiedKeys(defect_data) |-> FormValue(defect_data[key])]

\* Lines 251-259: the overrides and the required fields, in order.
form_data(defect_id, status, rca, defect_data, token, project_id) ==
    DictSet(DictSet(DictSet(DictSet(DictSet(DictSet(CopyFields(defect_data),
        "status", status),
        "custom_field_11665", rca),
        "token", token),
        "project_id", IntToStr(project_id)),
        "id", defect_id),
        "defect_id", defect_id)

\* mask_token keeping five characters at each end.
mask_token_FiveEachEnd(token) ==
    IF Len(token) <= 8 THEN <<"*", "*", "*", "*">>
    ELSE SubSeq(token, 1, 5) \o <<".", ".", ".">> \o SubSeq(token, Len(token) - 4, Len(token))

\* defect.py, lines 111-115: token[:4], '...', token[-4:]
mask_token(token) ==
    IF Len(token) <= 8 THEN <<"*", "*", "*", "*">>
    ELSE SubSeq(token, 1, 4) \o <<".", ".", ".">> \o SubSeq(token, Len(token) - 3, Len(token))

\* test_cycle.py, lines 116-120: the same function, defined again.
tc_mask_token(token) ==
    IF Len(token) <= 8 THEN <<"*", "*", "*", "*">>
    ELSE SubSeq(token, 1, 4) \o <<".", ".", ".">> \o SubSeq(token, Len(token) - 3, Len(token))

\* A log line is a sequence of pieces of text: the fixed parts of the message
\* are one piece each, a token contributes its characters one by one.
\* json.dumps of a request body whose 'token' entry is `shown`.
BodyText(shown) == <<"{\"token\": \"">> \o shown \o <<"\", ...}">>

\* defect.py, lines 137-142: the lines _request writes before it sends.  The
\* body is logged, its token masked, when it was passed as json=.
DefectRequestLog(method, endpoint, has_json, token) ==
    <<(<<"[API] ", method, " ">> \o endpoint)>>
      \o (IF has_json THEN <<(<<"Request: ">> \o BodyText(mask_token(token)))>> ELSE <<>>)

\* test_cycle.py, lines 140-148 and 168: _log_request(method, endpoint,
\* json_data or data); every body the client sends holds the token.
TcRequestLog(method, endpoint, token) ==
    <<(<<"[API] ", method, " ">> \o endpoint),
      (<<"Request: ">> \o BodyText(tc_mask_token(token)))>>

\* defect.py, line 208: the URL of the details request, built with the token.
DetailsEndpoint(defect_id, token) ==
    <<"/defects/details?project_id=", "1", "&defect_id=", defect_id, "&token=">> \o token

\* The request log lines of each operation of the two clients.
RequestLog(op, token) ==
    CASE op = "list_defects" ->
            DefectRequestLog("POST", <<"/defects/list">>, TRUE, token)
      [] op = "get_defect_details" ->
            DefectRequestLog("GET", DetailsEndpoint("D1", token), FALSE, token)
      [] op = "update_defect" ->
            DefectRequestLog("POST", <<"/defects/update">>, FALSE, token)
      [] op = "list_cycles" ->
            TcRequestLog("POST", <<"/cycle/list">>, token)
      [] op = "list_test_cases" ->
            TcRequestLog("POST", <<"/test_case_execution/list">>, token)
      [] op = "execute_test" ->
            TcRequestLog("POST", <<"/test_case_execution/execute">>, token)
      [] op = "upload_attachment" ->
            TcRequestLog("POST", <<"/test_case_execution/execution_attachments">>, token)

\* What the server may answer to a list request: nothing (the connection
\* fails), a status other than 200, a 200 whose body is no JSON, a JSON object
\* without 'data', or one with the list under 'data'.
ListAnswers == {"transport_error", "http_error", "unparseable", "no_data", "data"}

\* The list a good answer carries.
ListData == <<"item1", "item2">>

\* A call's outcome: an exception leaves it, or it returns a value.
Raised == [raised |-> TRUE, value |-> <<>>]
Returned(value) == [raised |-> FALSE, value |-> value]

\* defect.py, lines 147-160 (raise_for_status on a status other than 200,
\* response.json() on a body that is no JSON), and test_cycle.py, lines
\* 170-194 (the except clause logs and re-raises): both _request raise.
RequestRaises(answer) == answer \in {"transport_error", "http_error", "unparseable"}

\* defect.py, lines 172-193: both except clauses return [].
list_defects(answer) ==
    IF RequestRaises(answer) THEN Returned(<<>>)
    ELSE IF answer = "no_data" THEN Returned(<<>>)
    ELSE Returned(ListData)

\* test_cycle.py, lines 196-207: no try around _request.
list_cycles(answer) ==
    IF RequestRaises(answer) THEN Raised
    ELSE IF answer = "no_data" THEN Returned(<<>>)
    ELSE Returned(ListData)

\* test_cycle.py, lines 209-222: no try around _request.
list_test_cases(answer) ==
    IF RequestRaises(answer) THEN Raised
    ELSE IF answer = "no_data" THEN Returned(<<>>)
    ELSE Returned(ListData)

\* test_cycle.py, lines 227-236: the body execute_test posts.
ExecuteBody(tc_id, build_id, cycle_id, testscenario_id) ==
    [tc_id |-> tc_id, build_id |-> build_id, cycle_id |-> cycle_id,
     testscenario_id |-> testscenario_id, status |-> str_Passed, execute |-> str_yes]

\* The tokens of config.json: the twelve characters of the documented
\* example, and every string of at most MaxTokenLen characters out of two.
TokenExample == <<"a", "b", "c", "d", "1", "2", "3", "4", "e", "f", "g", "h">>
Tokens == {TokenExample} \cup SeqsUpTo({"a", "x"}, MaxTokenLen)

\* The defect snapshots update_defect may be handed: at most MaxFields of the
\* fields below, each with one of the values below.
FieldNames == {"status", "custom_field_11665", "id", "tags", "severity", "build"}
FieldValues ==
    {PyNone, PyStr(str_Open), PyStr(<<"9", "8">>), PyInt(7), PyInt(42), PyBool(TRUE),
     PyList(<<>>), PyList(<<PyStr(<<"a">>), PyStr(<<"b">>)>>), PyList(<<PyInt(7), PyNone>>),
     PyDict}
Snapshots ==
    UNION {[K -> FieldValues] : K \in {K \in SUBSET FieldNames : Cardinality(K) <= MaxFields}}

GwInit ==
    /\ flow = "gateway"
    /\ pc = "returned"
    /\ csv_rows = <<>>
    /\ i = 1
    /\ defects_data = <<>>
    /\ valid = <<>>
    /\ matched = <<>>
    /\ skipped = <<>>
    /\ confirm = NoAnswer
    /\ success_count = 0
    /\ fail_count = 0
    /\ summary = NoSummary
    /\ calls = <<>>
    /\ server = ServerInit
    /\ test_cases = <<>>
    /\ AuxIdle

\* One operation applied: its name, its arguments, what it gave.
Applied(op, in, out) ==
    /\ g_op' = op
    /\ g_in' = in
    /\ g_out' = out
    /\ UNCHANGED <<flow, pc, csv_rows, i, defects_data, valid, matched, skipped, confirm,
                   success_count, fail_count, summary, calls, server, test_cases>>
    /\ UNCHANGED <<max_workers, futures, yielded, in_flight, exec_id, menuvars>>

GwMaskToken ==
    /\ g_op = "none"
    /\ \E token \in Tokens :
           Applied("mask_token", [token |-> token],
                   [defect |-> mask_token(token), test_cycle |-> tc_mask_token(token)])

GwUpdateDefect ==
    /\ g_op = "none"
    /\ \E defect_data \in Snapshots, token \in {TokenExample} :
           Applied("update_defect",
                   [token |-> token, defect_id |-> <<"D", "1">>, status |-> str_close,
                    rca |-> str_rca, defect_data |-> defect_data],
                   [copied |-> CopyFields(defect_data),
                    form |-> form_data(<<"D", "1">>, str_close, str_rca, defect_data, token, 1),
                    log |-> RequestLog("update_defect", token)])

GwGetDefectDetails ==
    /\ g_op = "none"
    /\ \E token \in Tokens, transport_ok \in BOOLEAN :
           Applied("get_defect_details", [token |-> token, transport_ok |-> transport_ok],
                   [result |-> get_defect_details("D1", transport_ok),
                    log |-> RequestLog("get_defect_details", token)])

GwListDefects ==
    /\ g_op = "none"
    /\ \E token \in Tokens, answer \in ListAnswers :
           Applied("list_defects", [token |-> token, answer |-> answer],
                   [result |-> list_defects(answer), log |-> RequestLog("list_defects", token)])

GwListCycles ==
    /\ g_op = "none"
    /\ \E token \in Tokens, answer \in ListAnswers :
           Applied("list_cycles", [token |-> token, answer |-> answer],
                   [result |-> list_cycles(answer), log |-> RequestLog("list_cycles", token)])

GwListTestCases ==
    /\ g_op = "none"
    /\ \E token \in Tokens, answer \in ListAnswers :
           Applied("list_test_cases", [token |-> token, answer |-> answer],
                   [result |-> list_test_cases(answer),
                    log |-> RequestLog("list_test_cases", token)])

GwExecuteTest ==
    /\ g_op = "none"
    /\ \E token \in Tokens, response \in ExecResponses, tc \in {1, 2} :
           Applied("execute_test", [token |-> token, response |-> response, tc_id |-> tc],
                   [request |-> ExecuteBody(tc, 1, 1, 1),
                    result |-> execute_test(response),
                    log |-> RequestLog("execute_test", token)])

GwUploadAttachment ==
    /\ g_op = "none"
    /\ \E token \in Tokens, file_path \in {path_a_png, path_b_PNG, path_a_exe, path_gone},
          outcome \in UploadOutcomes :
           Applied("upload_attachment",
                   [token |-> token, file_path |-> file_path, outcome |-> outcome],
                   [result |-> upload_attachment(file_path, outcome),
                    log |-> IF UploadSends(file_path)
                            THEN RequestLog("upload_attachment", token) ELSE <<>>])

\* What the network gives back to one request: no response at all, or a
\* status code with a body that is a JSON object whose 'status' is true, one
\* whose 'status' is false, or no JSON.  A body that is no JSON makes
\* response.json() raise a JSONDecodeError, which is a RequestException in the
\* newer releases of requests and a plain ValueError in the older.
StatusCodes == {200, 201, 204, 404, 500}
BodyKinds == {"json_status_true", "json_status_false", "not_json"}
HttpAnswers ==
    [transport_ok : BOOLEAN, status_code : StatusCodes, body : BodyKinds,
     json_error_is_request_exception : BOOLEAN]

\* response.raise_for_status() raises for the 4xx and 5xx codes only.
RaiseForStatusRaises(status_code) == status_code >= 400 /\ status_code < 600

\* What a _request call does: whether an exception leaves it, whether it
\* wrote an error line to the log, and the body it returns.
RequestOutcome(raised, error_logged, body) ==
    [raised |-> raised, error_logged |-> error_logged, body |-> body]

\* defect.py, lines 147-160: a status other than 200 is logged as an error
\* and then raise_for_status is called; response.json() follows.
DefectRequest(answer) ==
    IF ~answer.transport_ok THEN RequestOutcome(TRUE, FALSE, "none")
    ELSE IF answer.status_code # 200 /\ RaiseForStatusRaises(answer.status_code)
         THEN RequestOutcome(TRUE, TRUE, "none")
    ELSE IF answer.body = "not_json" THEN RequestOutcome(TRUE, answer.status_code # 200, "none")
    ELSE RequestOutcome(FALSE, answer.status_code # 200, answer.body)

\* test_cycle.py, lines 170-194: raise_for_status, then response.json(); a
\* RequestException is logged as an error and raised again.
TcRequest(answer) ==
    IF ~answer.transport_ok THEN RequestOutcome(TRUE, TRUE, "none")
    ELSE IF RaiseForStatusRaises(answer.status_code) THEN RequestOutcome(TRUE, TRUE, "none")
    ELSE IF answer.body = "not_json"
         THEN RequestOutcome(TRUE, answer.json_error_is_request_exception, "none")
    ELSE RequestOutcome(FALSE, FALSE, answer.body)

\* The answer as the list operations see it.
ListAnswerOf(answer, request) ==
    IF ~answer.transport_ok THEN "transport_error"
    ELSE IF request.raised /\ answer.body # "not_json" THEN "http_error"
    ELSE IF request.raised THEN "unparseable"
    ELSE IF request.body = "json_status_true" THEN "data"
    ELSE "no_data"

\* The answer as update_defect's caller sees it.
UpdateOutcomeOf(answer) ==
    IF ~answer.transport_ok THEN "transport_error"
    ELSE IF DefectRequest(answer).raised THEN "http_error"
    ELSE IF answer.body = "json_status_true" THEN "ok"
    ELSE "ok_status_false"

\* The response as execute_test sees it: a true status comes with one
\* executed result and its id.
ExecResponseOf(answer) ==
    IF TcRequest(answer).raised THEN ExecResponse(TRUE, FALSE, FALSE, <<>>)
    ELSE IF answer.body = "json_status_true"
         THEN ExecResponse(FALSE, FALSE, TRUE, <<[id |-> <<"7">>]>>)
    ELSE ExecResponse(FALSE, FALSE, FALSE, <<>>)

\* update_defect_returns looking at the 'status' of the body.
update_defect_returns_ChecksStatus(answer) ==
    ~DefectRequest(answer).raised /\ answer.body = "json_status_true"

\* defect.py, lines 261-275: True when _request returns, False from either
\* except clause.
update_defect_returns(answer) == ~DefectRequest(answer).raised

\* What an operation reports to its caller: an exception, or a value that
\* means success or failure (the empty list, None, False); and whether an
\* error line was logged.
OpReport(raised, success, error_logged) ==
    [raised |-> raised, success |-> success, error_logged |-> error_logged]

\* Each operation of the two clients on an answer of the network.  The
\* operations of defect.py log an error of their own in their except clauses.
OperationOn(op, answer) ==
    CASE op = "list_defects" ->
            OpReport(FALSE,
                     list_defects(ListAnswerOf(answer, DefectRequest(answer))).value # <<>>,
                     DefectRequest(answer).error_logged \/ DefectRequest(answer).raised)
      [] op = "get_defect_details" ->
            OpReport(FALSE, ~DefectRequest(answer).raised,
                     DefectRequest(answer).error_logged \/ DefectRequest(answer).raised)
      [] op = "update_defect" ->
            OpReport(FALSE, update_defect_returns(answer),
                     DefectRequest(answer).error_logged \/ DefectRequest(answer).raised)
      [] op = "list_cycles" ->
            OpReport(list_cycles(ListAnswerOf(answer, TcRequest(answer))).raised,
                     list_cycles(ListAnswerOf(answer, TcRequest(answer))).value # <<>>,
                     TcRequest(answer).error_logged)
      [] op = "list_test_cases" ->
            OpReport(list_test_cases(ListAnswerOf(answer, TcRequest(answer))).raised,
                     list_test_cases(ListAnswerOf(answer, TcRequest(answer))).value # <<>>,
                     TcRequest(answer).error_logged)
      [] op = "execute_test" ->
            OpReport(execute_test(ExecResponseOf(answer)) = <<"raise">>,
                     /\ execute_test(ExecResponseOf(answer)) # <<"raise">>
                     /\ ~Falsy(execute_test(ExecResponseOf(answer))),
                     TcRequest(answer).error_logged
                        \/ (~TcRequest(answer).raised /\ answer.body # "json_status_true"))
      [] op = "upload_attachment" ->
            OpReport(FALSE,
                     ~TcRequest(answer).raised /\ TcRequest(answer).body = "json_status_true",
                     TcRequest(answer).raised \/ TcRequest(answer).body # "json_status_true")

GwHttpAnswer ==
    /\ g_op = "none"
    /\ \E op \in {"list_defects", "get_defect_details", "update_defect", "list_cycles",
                  "list_test_cases", "execute_test", "upload_attachment"},
          answer \in HttpAnswers :
           Applied("http", [op |-> op, answer |-> answer], OperationOn(op, answer))

GwNext ==
    \/ GwMaskToken
    \/ GwUpdateDefect
    \/ GwGetDefectDetails
    \/ GwListDefects
    \/ GwListCycles
    \/ GwListTestCases
    \/ GwExecuteTest
    \/ GwUploadAttachment
    \/ GwHttpAnswer

GwSpec == GwInit /\ [][GwNext]_vars

\* ================================================================== claims
\* The eligible list of the running flow.
Eligible == IF flow = "defect" THEN valid ELSE matched

\* The validation loop has run to its end.
Validated == pc \in {"preview", "confirm", "execute", "summary"} \/ confirm # NoAnswer

\* The row indices a list of decisions holds.
RowsOf(list) == {list[k].row : k \in DOMAIN list}

\* A status cell that equals `lower`/`upper` up to the case of each letter.
EqualsIgnoringCase(st, lower, upper) ==
    /\ Len(st) = Len(lower)
    /\ \A k \in DOMAIN lower : st[k] \in {lower[k], upper[k]}

\* C1: in both bulk flows validation puts every row into exactly one of the two
\* lists: while the loop runs (and where an exception stopped the run before
\* any write) the two lists together hold the rows before i, each once; after
\* the loop their lengths sum to the number of CSV rows.
C1_EveryRowDecidedOnce ==
    /\ Len(Eligible) + Len(skipped) = Cardinality(RowsOf(Eligible) \cup RowsOf(skipped))
    /\ RowsOf(Eligible) \cap RowsOf(skipped) = {}
    /\ pc \in {"validate", "error"} => RowsOf(Eligible) \cup RowsOf(skipped) = 1..(i - 1)
    /\ Validated => /\ RowsOf(Eligible) \cup RowsOf(skipped) = DOMAIN csv_rows
                    /\ Len(Eligible) + Len(skipped) = Len(csv_rows)

\* A three-row defects CSV validated into one eligible and two skipped rows.
C1_Witness ==
    /\ flow = "defect" /\ pc = "preview"
    /\ Len(csv_rows) = 3 /\ Len(valid) = 1 /\ Len(skipped) = 2

\* What the user typed is an explicit yes: "yes" in the defect flow, "y" in
\* the test flow, in either case of the letters.
ExplicitYes ==
    IF flow = "defect" THEN confirm \in {str_yes, str_YES} ELSE confirm \in {str_y, <<"Y">>}

\* C2: no write call of a bulk run is issued unless the user confirmed after
\* the preview: the execution stage is entered, and a write is logged, only
\* with an explicit yes and a non-empty eligible list; a run that ends without
\* one (blank path, nothing eligible, a negative or default answer) has
\* issued no write.
C2_NoWriteWithoutConfirmation ==
    /\ (pc \in {"execute", "summary"} \/ calls # <<>>) => ExplicitYes /\ Eligible # <<>>
    /\ (pc \in {"returned", "error"} /\ ~ExplicitYes) => calls = <<>>

\* A confirmed test run that has issued writes.
C2_Witness == flow = "test" /\ pc = "returned" /\ ExplicitYes /\ Len(calls) >= 2

\* The status cell of row k does not match the literal the flow requires.
StatusMismatch(k) ==
    /\ csv_rows[k].status # None
    /\ IF flow = "defect"
       THEN ~EqualsIgnoringCase(csv_rows[k].status, str_close, str_CLOSE)
       ELSE csv_rows[k].status # str_Passed

\* C3: a row whose status does not match the required literal ('close' in any
\* case for defects, exactly 'Passed' for tests) is skipped with the
\* invalid-status reason once the loop has passed it, and is never eligible.
C3_BadStatusIsSkipped ==
    \A k \in DOMAIN csv_rows :
        StatusMismatch(k) =>
            /\ k \notin RowsOf(Eligible)
            /\ (Validated \/ (pc = "validate" /\ k < i)) =>
                  \E m \in DOMAIN skipped :
                      skipped[m].row = k /\ skipped[m].reason = "Invalid status"

\* A test CSV with 'passed' and 'PASSED' rows, both skipped for their status.
C3_Witness ==
    /\ flow = "test" /\ pc = "preview"
    /\ \E j, k \in DOMAIN csv_rows :
          /\ csv_rows[j].status = str_passed /\ csv_rows[k].status = str_PASSED
          /\ \A r \in {j, k} : \E m \in DOMAIN skipped :
                skipped[m].row = r /\ skipped[m].reason = "Invalid status"

\* The rows validation has decided, and the reason a skipped row was given.
Decided == RowsOf(Eligible) \cup RowsOf(skipped)
SkippedFor(k, reason) ==
    \E m \in DOMAIN skipped : skipped[m].row = k /\ skipped[m].reason = reason

\* A defect status that reads 'close' in any case of its letters.
IsClose(st) == EqualsIgnoringCase(st, str_close, str_CLOSE)

\* C4: closing an already-closed defect is always skipped and never
\* re-submitted: every eligible row carries a defect whose status is not
\* 'close', and update_defect is never invoked for a defect that is closed in
\* the remote store when the request is made.
C4_ClosedDefectNeverResubmitted ==
    flow = "defect" =>
        /\ \A k \in DOMAIN valid :
              ~valid[k].defect.isNone /\ ~IsClose(valid[k].defect.status)
        /\ \A k \in DOMAIN calls :
              ~IsClose(calls[k].snapshot_status) /\ ~IsClose(calls[k].remote_status)

\* C4, the part that rests on the fetched snapshot alone: no eligible row and
\* no update request carries a snapshot whose status is 'close'.
C4_SnapshotNotClosed ==
    flow = "defect" =>
        /\ \A k \in DOMAIN valid :
              ~valid[k].defect.isNone /\ ~IsClose(valid[k].defect.status)
        /\ \A k \in DOMAIN calls : ~IsClose(calls[k].snapshot_status)

\* The rule chain of the defect-closure variant, in its stated order.
RuleChain(row) ==
    IF ~IsClose(row.status) THEN "Invalid status"
    ELSE IF row.defect_id \notin DOMAIN defects_data THEN "Defect not found"
    ELSE IF defects_data[row.defect_id].isNone THEN "Defect not found"
    ELSE IF IsClose(defects_data[row.defect_id].status) THEN "Already closed"
    ELSE "valid"

\* Scenario A: one valid close, one already-closed defect, one unknown id, and
\* every detail fetch answered.
ScenarioA ==
    /\ flow = "defect"
    /\ csv_rows = <<DefectRow("D1", str_close, str_rca),
                    DefectRow("D2", str_close, str_rca),
                    DefectRow("D3", str_close, str_rca)>>
    /\ "D1" \in DOMAIN defects_data
    /\ ~defects_data["D1"].isNone

\* C5: the decision on each defect row is the rule chain's (invalid status,
\* then not found, then already closed, else eligible); scenario A validates
\* to one eligible row and two rows skipped for different reasons, and its
\* summary after updates that all succeed is 1 succeeded, 0 failed, 2 skipped.
C5_DecisionIsRuleChain ==
    flow = "defect" =>
        /\ \A k \in RowsOf(valid) : RuleChain(csv_rows[k]) = "valid"
        /\ \A k \in RowsOf(skipped) : SkippedFor(k, RuleChain(csv_rows[k]))
        /\ (ScenarioA /\ Validated) =>
              /\ RowsOf(valid) = {1}
              /\ SkippedFor(2, "Already closed") /\ SkippedFor(3, "Defect not found")
        /\ (ScenarioA /\ summary.printed /\ \A k \in DOMAIN calls : calls[k].result) =>
              summary = [printed |-> TRUE, success |-> 1, failed |-> 0, skipped |-> 2]

\* Scenario A run to its summary with the one update answered HTTP 200.
C5_Witness ==
    /\ ScenarioA /\ summary.printed
    /\ Len(calls) = 1 /\ calls[1].result
    /\ summary.success = 1 /\ summary.skipped = 2

\* Row k asks for an execution with an attachment path that names no file.
MissingFileRow(k) ==
    /\ TestRequiredCols \subseteq DOMAIN csv_rows[k]
    /\ csv_rows[k].status = str_Passed
    /\ csv_rows[k].attachment # None
    /\ csv_rows[k].attachment \notin ExistingFiles

\* The test cases of the fetched set that bear the name.
NameMatches(name) == {k \in DOMAIN test_cases : test_cases[k].tc_name = name}

\* C6 as stated: a 'Passed' row whose attachment does not exist is skipped
\* with the file-not-found reason whether or not the test case exists.
C6_MissingFileAlwaysFileNotFound ==
    flow = "test" =>
        \A k \in Decided : MissingFileRow(k) => SkippedFor(k, "File not found")

\* C6 as amended: a 'Passed' row whose attachment does not exist is never
\* eligible; it is skipped as file not found when its name is among the
\* fetched test cases, and as test case not found when it is not.
C6_MissingFileIsSkipped ==
    flow = "test" =>
        \A k \in DOMAIN csv_rows :
            MissingFileRow(k) =>
                /\ k \notin RowsOf(matched)
                /\ k \in Decided =>
                      IF NameMatches(csv_rows[k].test_case_name) # {}
                      THEN SkippedFor(k, "File not found")
                      ELSE SkippedFor(k, "Test case not found")

\* Two rows with a missing attachment, one naming a fetched test case and one
\* naming none, both decided.
C6_Witness ==
    /\ flow = "test" /\ pc = "preview"
    /\ \E j, k \in Decided :
          /\ MissingFileRow(j) /\ NameMatches(csv_rows[j].test_case_name) # {}
          /\ MissingFileRow(k) /\ NameMatches(csv_rows[k].test_case_name) = {}
          /\ SkippedFor(j, "File not found") /\ SkippedFor(k, "Test case not found")

\* C7: a test row is eligible only if its name matches exactly one fetched
\* test case; a 'Passed' row whose name matches none or several is skipped as
\* test case not found.
C7_EligibleOnlyIfOneMatch ==
    flow = "test" =>
        /\ \A k \in DOMAIN matched : Cardinality(NameMatches(matched[k].tc_name)) = 1
        /\ \A k \in Decided :
              (csv_rows[k].status = str_Passed
                 /\ Cardinality(NameMatches(csv_rows[k].test_case_name)) # 1)
              => SkippedFor(k, "Test case not found")

\* The first write request of each row: update_defect, execute_test.
IsRowCall(c) == c.op \in {"update_defect", "execute_test"}
RowCalls == SelectSeq(calls, IsRowCall)

\* The eligible rows the execution loop has been through.
Processed ==
    IF pc = "execute" THEN i - 1
    ELSE IF pc = "summary" \/ summary.printed THEN Len(Eligible)
    ELSE 0

\* C8: the executor takes the eligible rows in CSV order, each once, and never
\* goes back to a failed row: the eligible list is in input order, the k-th
\* row request is for the k-th eligible row, there is one per row gone
\* through, and an upload request only follows, once, the execute_test
\* request of its own row that returned an execution id.
C8_WritesInInputOrderOnce ==
    /\ \A j, k \in DOMAIN Eligible : j < k => Eligible[j].row < Eligible[k].row
    /\ Len(RowCalls) = Processed
    /\ \A k \in DOMAIN RowCalls :
          /\ RowCalls[k].row = Eligible[k].row
          /\ flow = "defect" => RowCalls[k].target = csv_rows[RowCalls[k].row].defect_id
    /\ \A k \in DOMAIN calls :
          calls[k].op = "upload_attachment" =>
              /\ k > 1
              /\ calls[k - 1].op = "execute_test"
              /\ calls[k - 1].row = calls[k].row
              /\ calls[k - 1].result = "id"

\* A defect run over rows 1 and 3 of a CSV whose row 2 was skipped: the update
\* of row 1 failed, and the summary shows two requests, one per row.
C8_Witness ==
    /\ flow = "defect" /\ summary.printed
    /\ RowsOf(valid) = {1, 3}
    /\ Len(calls) = 2 /\ ~calls[1].result /\ calls[1].row = 1 /\ calls[2].row = 3

\* C9: a failed row never aborts the batch: no exception handler ends the run
\* once a write was issued, a run in its execution loop reaches the summary,
\* and at the summary every eligible row has been attempted.
C9_FailureDoesNotAbort ==
    /\ [](pc = "error" => calls = <<>>)
    /\ [](summary.printed => Len(RowCalls) = Len(Eligible))
    /\ (pc = "execute") ~> summary.printed

\* A test run whose first row raised and whose second got no execution id,
\* summarised with both counted as failures.
C9_Witness ==
    /\ flow = "test" /\ summary.printed
    /\ Len(calls) >= 2 /\ calls[1].result = "raise" /\ calls[2].result = "none"
    /\ summary.failed >= 2

\* C10: at the summary success_count + fail_count is the number of eligible
\* rows, the skipped count is the length the skipped list had when validation
\* ended, which execution never changes, and the three counts sum to the
\* number of CSV rows.
C10_SummaryCountsAddUp ==
    /\ [](pc = "execute" => success_count + fail_count = i - 1)
    /\ [](pc = "summary" => success_count + fail_count = Len(Eligible))
    /\ [](summary.printed =>
            /\ summary.success + summary.failed = Len(Eligible)
            /\ summary.skipped = Len(skipped)
            /\ summary.success + summary.failed + summary.skipped = Len(csv_rows))
    /\ [][pc # "validate" => skipped' = skipped]_vars

\* A summary with a success, a failure and a skipped row.
C10_Witness ==
    /\ summary.printed
    /\ summary.success = 1 /\ summary.failed = 1 /\ summary.skipped = 1

\* The requests of the test flow sent for CSV row r, by operation and result.
TestCallsOf(r, op) == {k \in DOMAIN calls : calls[k].op = op /\ calls[k].row = r}
ExecutedRows == {calls[k].row : k \in {m \in DOMAIN calls :
                    calls[m].op = "execute_test" /\ calls[m].result = "id"}}
UploadedRows(ok) == {calls[k].row : k \in {m \in DOMAIN calls :
                    calls[m].op = "upload_attachment" /\ calls[m].result = ok}}

\* C11: in the bulk test run a row that was executed but whose upload failed is
\* counted as failed, not succeeded: the successes are exactly the rows whose
\* upload returned True and every other row gone through is a failure; the
\* run sends nothing for a row but its one execute_test and at most one
\* upload_attachment (no request undoes a recorded execution); and no upload
\* is sent for a row whose execute_test gave no execution id.
C11_UploadFailureCountsFailed ==
    flow = "test" =>
        /\ success_count = Cardinality(UploadedRows(TRUE))
        /\ pc \in {"execute", "summary"} =>
              fail_count = Processed - Cardinality(UploadedRows(TRUE))
        /\ summary.printed => summary.failed >= Cardinality(UploadedRows(FALSE))
        /\ \A k \in DOMAIN calls : calls[k].op \in {"execute_test", "upload_attachment"}
        /\ \A r \in RowsOf(matched) :
              /\ Cardinality(TestCallsOf(r, "execute_test")) <= 1
              /\ Cardinality(TestCallsOf(r, "upload_attachment")) <= 1
              /\ Cardinality(TestCallsOf(r, "execute_test"))
                   + Cardinality(TestCallsOf(r, "upload_attachment"))
                   = Cardinality({k \in DOMAIN calls : calls[k].row = r})
        /\ UploadedRows(TRUE) \cup UploadedRows(FALSE) \subseteq ExecutedRows

\* A one-row run whose execution was recorded and whose upload failed: two
\* requests, and a summary of no success and one failure.
C11_Witness ==
    /\ flow = "test" /\ summary.printed
    /\ Len(matched) = 1 /\ Len(calls) = 2
    /\ calls[1].op = "execute_test" /\ calls[1].result = "id"
    /\ calls[2].op = "upload_attachment" /\ calls[2].result = FALSE
    /\ summary.success = 0 /\ summary.failed = 1

\* get_multiple_defects has returned to update_bulk_defects.
PoolReturned == flow = "defect" /\ pc \notin {"fetch", "collect"}

\* The ids get_multiple_defects was asked for.
RequestedIds == {futures[f].defect_id : f \in DOMAIN futures}

\* The mapping the futures give when their results are stored in the order
\* they were submitted in.
RECURSIVE InSubmissionOrder(_)
InSubmissionOrder(n) ==
    IF n = 0 THEN <<>>
    ELSE DictSet(InSubmissionOrder(n - 1), futures[n].defect_id, futures[n].details)

\* C12: get_multiple_defects returns only when every fetch is done, with a
\* mapping whose keys are exactly the requested ids, in which an id one of
\* whose fetches failed maps to None, and which is the mapping of every other
\* completion order of the same fetches (so the one of the submission order).
C12_MappingSameForEveryOrder ==
    PoolReturned =>
        /\ FuturesIn("done") = DOMAIN futures
        /\ DOMAIN defects_data = RequestedIds
        /\ \A f \in DOMAIN futures :
              futures[f].details.isNone => defects_data[futures[f].defect_id].isNone
        /\ defects_data = InSubmissionOrder(Len(futures))

\* C12, the part that holds: the mapping is returned when every fetch is done,
\* its keys are exactly the requested ids, and an id requested once maps to
\* the result of its one fetch, None when that failed.
C12_OneEntryPerRequestedId ==
    PoolReturned =>
        /\ FuturesIn("done") = DOMAIN futures
        /\ DOMAIN defects_data = RequestedIds
        /\ \A f \in DOMAIN futures :
              (\A g \in DOMAIN futures : futures[g].defect_id = futures[f].defect_id => g = f)
              => defects_data[futures[f].defect_id] = futures[f].details

\* C13: the fetches running at one time, each with at most one
\* get_defect_details request in flight, are never more than max_workers.
C13_InFlightWithinMaxWorkers ==
    Cardinality(FuturesIn("running")) <= max_workers

\* Three ids asked of a pool of two: two fetches run and the third waits.
C13_Witness ==
    /\ max_workers = 2 /\ Len(futures) = 3
    /\ Cardinality(FuturesIn("running")) = 2 /\ Cardinality(FuturesIn("pending")) = 1

\* C14: writes are strictly sequential: at most one write request is in
\* flight at any moment, in both flows, and while one is in flight or after
\* one was answered no detail fetch of the pool is waiting or running.
C14_WritesSequential ==
    /\ Cardinality(in_flight) <= 1
    /\ (in_flight # {} \/ calls # <<>>) => FuturesIn("pending") \cup FuturesIn("running") = {}

\* The second update of a defect run on the wire, the first answered, after a
\* pool of one worker fetched the details of both rows.
C14_Witness ==
    /\ flow = "defect" /\ max_workers = 1 /\ Len(futures) >= 2
    /\ Len(calls) = 1 /\ in_flight = {WriteRequest("update_defect", 2)}

\* The pieces of a text between the separators.
RECURSIVE SplitOn(_, _)
SplitOn(text, sep) ==
    IF \A k \in DOMAIN text : text[k] # sep THEN <<text>>
    ELSE LET k == CHOOSE k \in DOMAIN text : text[k] = sep /\ \A m \in 1..(k - 1) : text[m] # sep
         IN  <<SubSeq(text, 1, k - 1)>> \o SplitOn(SubSeq(text, k + 1, Len(text)), sep)

\* The number a string of decimal digits denotes.
DigitValue(c) == (CHOOSE k \in DOMAIN Digits : Digits[k] = c) - 1
RECURSIVE DecimalValue(_)
DecimalValue(text) ==
    IF text = <<>> THEN 0
    ELSE 10 * DecimalValue(SubSeq(text, 1, Len(text) - 1)) + DigitValue(text[Len(text)])

\* text is the string form of the scalar: the characters of a str, the
\* decimal numeral of an int, True or False for a bool, None for None.
IsStringForm(text, value) ==
    CASE value.t = "str"  -> text = value.s
      [] value.t = "int"  -> /\ text # <<>>
                             /\ \A k \in DOMAIN text : \E d \in DOMAIN Digits : Digits[d] = text[k]
                             /\ (Len(text) > 1 => text[1] # "0")
                             /\ DecimalValue(text) = value.n
      [] value.t = "bool" -> text = IF value.b THEN <<"T", "r", "u", "e">>
                                    ELSE <<"F", "a", "l", "s", "e">>
      [] value.t = "none" -> text = <<"N", "o", "n", "e">>
      [] OTHER -> FALSE

\* text is what the form is to carry for a value that is no dict: empty for
\* None and for the empty list, the elements' string forms with one comma
\* between each two for a list, the string form for anything else.
Encodes(text, value) ==
    CASE value.t = "none" -> text = <<>>
      [] value.t = "list" ->
            IF value.l = <<>> THEN text = <<>>
            ELSE /\ Len(SplitOn(text, ",")) = Len(value.l)
                 /\ \A j \in DOMAIN value.l : IsStringForm(SplitOn(text, ",")[j], value.l[j])
      [] value.t = "dict" -> FALSE
      [] OTHER -> IsStringForm(text, value)

\* The fields update_defect sets itself, after the copy: the two it is asked
\* to change, and the four that address the request.
ChangedKeys == {"status", "custom_field_11665"}
AddressKeys == {"token", "project_id", "id", "defect_id"}

\* C15: the form update_defect builds from the snapshot carries a list as its
\* elements joined by commas (['a','b'] as 'a,b', the empty list as ''), None
\* as the empty string and any other scalar as its string form, and has no
\* entry for a dict: so after the copy loop for every field, and so in the
\* submitted form for every field update_defect does not set itself.
C15_FormEncodesByType ==
    g_op = "update_defect" =>
        \A key \in DOMAIN g_in.defect_data :
            LET value == g_in.defect_data[key]
            IN  /\ IF value.t = "dict" THEN key \notin DOMAIN g_out.copied
                   ELSE key \in DOMAIN g_out.copied /\ Encodes(g_out.copied[key], value)
                /\ key \notin ChangedKeys \cup AddressKeys =>
                      IF value.t = "dict" THEN key \notin DOMAIN g_out.form
                      ELSE key \in DOMAIN g_out.form /\ Encodes(g_out.form[key], value)
                /\ value = PyList(<<PyStr(<<"a">>), PyStr(<<"b">>)>>) =>
                      g_out.copied[key] = <<"a", ",", "b">>

\* A snapshot with tags ['a','b'] and a nested build: 'a,b' is submitted for
\* the one and nothing for the other.
C15_Witness ==
    /\ g_op = "update_defect"
    /\ DOMAIN g_in.defect_data = {"tags", "build"}
    /\ g_in.defect_data["tags"] = PyList(<<PyStr(<<"a">>), PyStr(<<"b">>)>>)
    /\ g_in.defect_data["build"] = PyDict
    /\ g_out.form["tags"] = <<"a", ",", "b">>
    /\ "build" \notin DOMAIN g_out.form

\* C16 as stated: every field of the snapshot but status and the RCA field is
\* submitted, with the value it has in the snapshot, and no other submitted
\* value differs from the snapshot's.
C16_AllOtherFieldsRoundTrip ==
    g_op = "update_defect" =>
        \A key \in DOMAIN g_in.defect_data \ ChangedKeys :
            /\ key \in DOMAIN g_out.form
            /\ g_out.form[key] = FormValue(g_in.defect_data[key])

\* C16 as amended: every field of the snapshot that update_defect does not set
\* itself and that is no dict is submitted with the encoding of the value it
\* has in the snapshot; a dict is not submitted; status and the RCA field
\* carry the new values, token, project_id, id and defect_id those of the
\* call; and the form has no other entry.
C16_UnrelatedFieldsPreserved ==
    g_op = "update_defect" =>
        /\ \A key \in DOMAIN g_in.defect_data \ (ChangedKeys \cup AddressKeys) :
              IF g_in.defect_data[key].t = "dict" THEN key \notin DOMAIN g_out.form
              ELSE key \in DOMAIN g_out.form /\ Encodes(g_out.form[key], g_in.defect_data[key])
        /\ DOMAIN g_out.form \subseteq DOMAIN g_in.defect_data \cup ChangedKeys \cup AddressKeys
        /\ ChangedKeys \cup AddressKeys \subseteq DOMAIN g_out.form
        /\ g_out.form["status"] = g_in.status
        /\ g_out.form["custom_field_11665"] = g_in.rca
        /\ g_out.form["token"] = g_in.token
        /\ g_out.form["id"] = g_in.defect_id
        /\ g_out.form["defect_id"] = g_in.defect_id
        /\ DecimalValue(g_out.form["project_id"]) = 1

\* A snapshot with a severity of None and a status of Open: the severity is
\* submitted empty, the status as the new one.
C16_Witness ==
    /\ g_op = "update_defect"
    /\ DOMAIN g_in.defect_data = {"severity", "status"}
    /\ g_in.defect_data["severity"] = PyNone
    /\ g_in.defect_data["status"] = PyStr(str_Open)
    /\ g_out.form["severity"] = <<>>
    /\ g_out.form["status"] = str_close

\* C17: mask_token gives '****' for a token of at most 8 characters and
\* otherwise eleven characters: the token's first four, three dots, its last
\* four, so that each character of the output is a dot or comes from one of
\* those eight positions; 'abcd1234efgh' gives 'abcd...efgh'; and the
\* functions of the two modules give the same.
C17_MaskShowsFourEachEnd ==
    g_op = "mask_token" =>
        LET token == g_in.token
            out == g_out.defect
        IN  /\ g_out.test_cycle = out
            /\ Len(token) <= 8 => out = <<"*", "*", "*", "*">>
            /\ Len(token) > 8 =>
                  /\ Len(out) = 11
                  /\ \A k \in 1..4 : out[k] = token[k] /\ out[7 + k] = token[Len(token) - 4 + k]
                  /\ \A k \in 5..7 : out[k] = "."
            /\ token = TokenExample =>
                  out = <<"a", "b", "c", "d", ".", ".", ".", "e", "f", "g", "h">>

\* The documented example, masked.
C17_Witness ==
    /\ g_op = "mask_token"
    /\ g_in.token = TokenExample
    /\ g_out.defect = <<"a", "b", "c", "d", ".", ".", ".", "e", "f", "g", "h">>

\* The operations of the gateway that send a request.
GatewayOps ==
    {"list_defects", "get_defect_details", "update_defect",
     "list_cycles", "list_test_cases", "execute_test", "upload_attachment"}

\* The line holds the token, character after character.
Contains(line, token) ==
    \E k \in 0..(Len(line) - Len(token)) : SubSeq(line, k + 1, k + Len(token)) = token

\* The token with each character between its first four and last four
\* replaced.
MiddleReplaced(token) ==
    [k \in DOMAIN token |-> IF k > 4 /\ k <= Len(token) - 4 THEN "#" ELSE token[k]]

\* C18: for every operation of the gateway and every token of more than 8
\* characters no request log line holds the whole token, and the lines are
\* those of a run whose token differs in its middle characters only.
C18_NoLogLineHoldsToken ==
    (g_op \in GatewayOps /\ Len(g_in.token) > 8) =>
        /\ \A k \in DOMAIN g_out.log : ~Contains(g_out.log[k], g_in.token)
        /\ g_out.log = RequestLog(g_op, MiddleReplaced(g_in.token))

\* C18, the part that holds: the same of every operation but
\* get_defect_details, whose request carries the token in its URL.
C18_BodiesAreMasked ==
    (g_op \in GatewayOps \ {"get_defect_details"} /\ Len(g_in.token) > 8) =>
        /\ \A k \in DOMAIN g_out.log : ~Contains(g_out.log[k], g_in.token)
        /\ g_out.log \in {<<>>, RequestLog(g_op, MiddleReplaced(g_in.token))}

\* The three list operations, and the answers that are failures.
ListOps == {"list_defects", "list_cycles", "list_test_cases"}
ListFailures == {"transport_error", "http_error", "unparseable"}

\* C19: each list operation answers a network error, a status that is not a
\* success and an unparseable body with the empty list, and lets no exception
\* out.
C19_ListOperationsFailSoft ==
    g_op \in ListOps =>
        /\ ~g_out.result.raised
        /\ g_in.answer \in ListFailures => g_out.result.value = <<>>

\* C19, the part that holds: list_defects fails soft, and all three return
\* the empty list for a body without 'data' and the list for one with it.
C19_ListDefectsFailsSoft ==
    /\ g_op = "list_defects" =>
          /\ ~g_out.result.raised
          /\ g_in.answer \in ListFailures => g_out.result.value = <<>>
    /\ (g_op \in ListOps /\ g_in.answer \notin ListFailures) =>
          /\ ~g_out.result.raised
          /\ g_out.result.value = IF g_in.answer = "data" THEN ListData ELSE <<>>

\* A response that carries an execution id: status truthy, executed_results
\* not empty, an id in its first element.
CarriesId(response) ==
    /\ ~response.raises /\ ~response.empty /\ response.status
    /\ response.executed_results # <<>>
    /\ response.executed_results[1].id # None

\* C20: execute_test always submits the status 'Passed'; it raises nothing,
\* returns None for every response that carries no execution id (a transport
\* error or failing HTTP status among them), and returns the id of
\* executed_results[0] for one that does.
C20_ExecuteTestNeverRaises ==
    g_op = "execute_test" =>
        /\ g_out.request.status = str_Passed
        /\ g_out.result # <<"raise">>
        /\ ~CarriesId(g_in.response) => g_out.result = None
        /\ CarriesId(g_in.response) => g_out.result = g_in.response.executed_results[1].id

\* C20, the part that holds: the status submitted is 'Passed', and whenever
\* _request returns, the result is the id the response carries, None when it
\* carries none.
C20_AbsentUnlessIdReturned ==
    g_op = "execute_test" =>
        /\ g_out.request.status = str_Passed
        /\ ~g_in.response.raises =>
              g_out.result = IF CarriesId(g_in.response)
                             THEN g_in.response.executed_results[1].id
                             ELSE None

\* Row k has a value that validation is to reject: a status cell that is
\* missing or is not the required literal, or an attachment cell that is
\* missing or names no file of an allowed type.
BadRow(k) ==
    \/ csv_rows[k].status = None
    \/ StatusMismatch(k)
    \/ /\ flow = "defect"
       /\ csv_rows[k].RCA = None
    \/ /\ flow = "test"
       /\ \/ csv_rows[k].attachment = None
          \/ csv_rows[k].attachment \notin ExistingFiles
          \/ Ext(csv_rows[k].attachment) \notin ALLOWED_EXTENSIONS

\* The line of row k lacks a cell validation reads (csv.DictReader gives None).
MissingCell(k) ==
    \/ csv_rows[k].status = None
    \/ flow = "defect" /\ csv_rows[k].RCA = None
    \/ flow = "test" /\ csv_rows[k].attachment = None

\* The CSV has the header the flow requires.
HeaderOk ==
    /\ csv_rows # <<>>
    /\ (IF flow = "defect" THEN DefectRequiredCols ELSE TestRequiredCols)
          \subseteq DOMAIN csv_rows[1]

\* C21: validation errors never abort the batch: in both flows no exception
\* handler ends a run over a CSV with a header, and once validation is over
\* every bad row is among the skipped ones.
C21_ValidationNeverAborts ==
    HeaderOk =>
        /\ pc # "error"
        /\ Validated => \A k \in DOMAIN csv_rows : BadRow(k) => k \in RowsOf(skipped)

\* C21, the part that holds: a run is ended by the exception handler only
\* over a CSV one of whose lines lacks a cell, and then before any write; a
\* row whose cells are all there and whose status, file or file type is bad
\* is skipped and the rows after it are validated.
C21_CompleteRowsNeverAbort ==
    HeaderOk =>
        /\ pc = "error" =>
              /\ calls = <<>>
              /\ \E k \in DOMAIN csv_rows : MissingCell(k)
        /\ Validated =>
              \A k \in DOMAIN csv_rows :
                  (BadRow(k) /\ ~MissingCell(k)) => k \in RowsOf(skipped)

\* The rows of the CSV that ask to close defect d.
CloseRowsOf(d) ==
    {k \in DOMAIN csv_rows : csv_rows[k].defect_id = d /\ csv_rows[k].status # None
                             /\ IsClose(csv_rows[k].status)}

\* The snapshot fetched for d is that of an open defect.
SnapshotOpen(d) ==
    /\ d \in DOMAIN defects_data
    /\ ~defects_data[d].isNone
    /\ ~IsClose(defects_data[d].status)

\* C27: the bulk defect flow does not deduplicate: when the fetched snapshot
\* of a defect is open, every row that asks to close it is eligible, each
\* carrying that same snapshot, and by the summary update_defect has been
\* invoked once for each of them.
C27_DuplicateRowsAllExecuted ==
    flow = "defect" =>
        \A d \in {"D1", "D2", "D3"} :
            SnapshotOpen(d) =>
                /\ \A k \in CloseRowsOf(d) : (Validated \/ (pc = "validate" /\ k < i)) =>
                      \E m \in DOMAIN valid :
                          valid[m].row = k /\ valid[m].defect = defects_data[d]
                /\ summary.printed =>
                      Cardinality({m \in DOMAIN calls : calls[m].target = d})
                          = Cardinality(CloseRowsOf(d))

\* Three rows closing D1, all executed: three update requests for D1, the
\* last two sent when the store already has it closed.
C27_Witness ==
    /\ flow = "defect" /\ summary.printed
    /\ Cardinality(CloseRowsOf("D1")) = 3
    /\ Len(calls) = 3
    /\ \A m \in DOMAIN calls : calls[m].target = "D1" /\ ~IsClose(calls[m].snapshot_status)
    /\ IsClose(calls[3].remote_status)

\* C24: for every operation of the gateway and every response whose status
\* code is not 200, the other 2xx codes among them, the operation logs an
\* error and reports a failure to its caller, never a success.
C24_Non200IsFailure ==
    (g_op = "http" /\ g_in.answer.transport_ok /\ g_in.answer.status_code # 200) =>
        /\ g_out.error_logged
        /\ ~g_out.success

\* C24, the part that holds: a 4xx or 5xx response is logged as an error by
\* every operation and none reports it as a success; the operations of
\* defect.py log an error for every status code other than 200.
C24_ErrorStatusIsFailure ==
    (g_op = "http" /\ g_in.answer.transport_ok) =>
        /\ g_in.answer.status_code >= 400 => g_out.error_logged /\ ~g_out.success
        /\ (g_in.answer.status_code # 200
              /\ g_in.op \in {"list_defects", "get_defect_details", "update_defect"})
           => g_out.error_logged

\* C28: update_defect never raises; it returns True exactly when the POST got
\* a response for whose status raise_for_status does not raise and whose body
\* is JSON, whatever the body's 'status' says, so that the bulk flow counts
\* as a success an update the server answered with status false.
C28_UpdateTrueOnAnyParsedAnswer ==
    (g_op = "http" /\ g_in.op = "update_defect") =>
        /\ ~g_out.raised
        /\ g_out.success <=> /\ g_in.answer.transport_ok
                             /\ g_in.answer.status_code \in {200, 201, 204}
                             /\ g_in.answer.body \in {"json_status_true", "json_status_false"}
        /\ update_defect(UpdateOutcomeOf(g_in.answer)) = g_out.success

\* HTTP 200 with a body whose status is false: update_defect returns True,
\* and the bulk loop takes the outcome for a success.
C28_Witness ==
    /\ g_op = "http" /\ g_in.op = "update_defect"
    /\ g_in.answer.transport_ok /\ g_in.answer.status_code = 200
    /\ g_in.answer.body = "json_status_false"
    /\ g_out.success
    /\ UpdateOutcomeOf(g_in.answer) = "ok_status_false"

\* The name ends in a dot and one of the allowed extensions, in any case of
\* its letters.
HasAllowedExtension(path) ==
    \E e \in ALLOWED_EXTENSIONS :
        /\ Len(path) > Len(e) + 1
        /\ path[Len(path) - Len(e)] = "."
        /\ \A k \in DOMAIN e : LowerChar(path[Len(path) - Len(e) + k]) = e[k]

\* C25: upload_attachment returns False without sending a request when the
\* file does not exist or its extension, lower-cased, is not one of the 16
\* allowed; it sends the request for an existing file of an allowed
\* extension, 'PNG' in capitals included.
C25_UploadPreconditions ==
    g_op = "upload_attachment" =>
        /\ Cardinality(ALLOWED_EXTENSIONS) = 16
        /\ (g_in.file_path \notin ExistingFiles \/ ~HasAllowedExtension(g_in.file_path)) =>
              g_out.log = <<>> /\ ~g_out.result
        /\ (g_in.file_path \in ExistingFiles /\ HasAllowedExtension(g_in.file_path)) =>
              g_out.log # <<>>
        /\ g_in.file_path = path_b_PNG => g_out.log # <<>>

\* b.PNG uploaded.
C25_Witness ==
    /\ g_op = "upload_attachment"
    /\ g_in.file_path = path_b_PNG
    /\ g_out.log # <<>> /\ g_out.result

\* The options of RCA_OPTIONS.
RcaOptionSet == {RCA_OPTIONS[k] : k \in DOMAIN RCA_OPTIONS}

\* C26: update_single_defect calls update_defect only with status 'close', an
\* rca that is one of the 28 RCA_OPTIONS, a defect whose fetched status is not
\* 'close' (in any spelling), and after the answer 'y'; update_bulk_defects
\* passes each row's RCA cell to update_defect as the CSV has it, and a row is
\* eligible whatever its RCA text.
C26_RcaCheckedOnlyInSinglePath ==
    /\ Len(RCA_OPTIONS) = 28 /\ Cardinality(RcaOptionSet) = 28
    /\ flow = "single" =>
         \A k \in DOMAIN calls :
             /\ calls[k].status = str_close
             /\ calls[k].rca \in RcaOptionSet
             /\ Lower(calls[k].snapshot_status) # str_close
             /\ Lower(confirm) = str_y
    /\ (flow = "defect" /\ Validated) =>
         /\ \A k \in DOMAIN calls : calls[k].rca = csv_rows[calls[k].row].RCA
         /\ \A r \in DOMAIN csv_rows :
              (DefectDecision(csv_rows[r], defects_data) = "valid") =>
                  \E v \in DOMAIN valid : valid[v].row = r /\ valid[v].rca = csv_rows[r].RCA

\* The bulk update closed a defect with an RCA text that is no option of the list.
C26_Witness ==
    /\ flow = "defect"
    /\ \E k \in DOMAIN calls : calls[k].rca \notin RcaOptionSet /\ calls[k].result

\* The single update closed a defect.
C26_SingleUpdated ==
    /\ flow = "single"
    /\ \E k \in DOMAIN calls : calls[k].result /\ server[calls[k].target] = str_close

\* The functions that show a menu in a loop.
MenuFrames ==
    {"show_main_menu", "show_test_cycle_menu", "show_cycle_menu", "show_defect_menu"}
      \cup CycleLists

\* The stack cut back to the menu that called the menu or action st ends with.
ParentStack(st) ==
    LET ks == {k \in 1..(Len(st) - 1) : st[k] \in MenuFrames}
    IN  SubSeq(st, 1, CHOOSE k \in ks : \A j \in ks : j <= k)

\* Ctrl+C was pressed below the main menu.
InterruptedBelowMain == event.kind = "interrupt" /\ Top(event.stack) # "show_main_menu"

\* handle_interrupt handled it.
ByHandleInterrupt ==
    \E k \in DOMAIN event.handled : event.handled[k].does = "handle_interrupt_return"

\* The process runs on, in the parent menu.
WentBackToParent == exit_code = -1 /\ stack = ParentStack(event.stack)

\* What C22 asks of the state an interrupt leaves.
DebounceRule ==
    IF ByHandleInterrupt
    THEN IF event.at - event.last < 2
         THEN exit_code = 0
         ELSE WentBackToParent /\ last_interrupt_time = event.at
    ELSE WentBackToParent /\ last_interrupt_time = event.last

\* C22: an interrupt during a sub-menu returns control to the parent menu
\* without ending the process; handled by handle_interrupt less than 2 seconds
\* after the time handle_interrupt recorded last, it ends the process with
\* exit code 0; handled 2 seconds or more after it, it only goes back and
\* records the new time.
C22_InterruptDebounce == InterruptedBelowMain => DebounceRule

\* C22, for an interrupt that arrives in the try of the waiting function (at a
\* prompt, a notice, or while a list loads): the rule holds.
C22_InterruptInTryDebounced ==
    (InterruptedBelowMain /\ event.wait \notin {"ack_loop", "ack_return"}) => DebounceRule

\* C22, for any interrupt below the main menu: the process ends only by
\* handle_interrupt's rule, with code 0, and otherwise control is in a menu
\* that encloses the interrupted function.
C22_InterruptNeverKillsAlone ==
    InterruptedBelowMain =>
        IF ByHandleInterrupt /\ event.at - event.last < 2
        THEN exit_code = 0
        ELSE /\ exit_code = -1
             /\ Len(stack) < Len(event.stack)
             /\ stack = SubSeq(event.stack, 1, Len(stack))
             /\ Top(stack) \in MenuFrames

\* A module was chosen at the main menu.
ModuleChosen ==
    event.kind = "choice" /\ Top(event.stack) = "show_main_menu" /\ event.choice \in {1, 2}

\* Quit was chosen, or Ctrl+C pressed, at the main menu.
LeftAtMainMenu ==
    /\ event.kind \in {"choice", "interrupt"}
    /\ Top(event.stack) = "show_main_menu"
    /\ event.kind = "choice" => event.choice = 0

\* C23: with config.json absent, not valid JSON, or lacking 'token' or
\* 'project_id', entering either module ends the process with exit code 1
\* before an API client is built or a request sent; quitting or interrupting at
\* the main menu ends it with code 0.
C23_ConfigErrorsFatal ==
    /\ (ModuleChosen /\ config # "object_ok") => exit_code = 1 /\ api = "none" /\ ~sent
    /\ LeftAtMainMenu => exit_code = 0

\* C23, for the three errors load_config tests for.
C23_TestedConfigErrorsFatal ==
    /\ (ModuleChosen /\ config \in {"absent", "invalid_json", "no_token", "no_project_id"}) =>
           exit_code = 1 /\ api = "none" /\ ~sent
    /\ LeftAtMainMenu => exit_code = 0

\* 0 was chosen at a cycle list or at the cycle menu.
JumpChosen ==
    /\ event.kind = "choice" /\ event.choice = 0
    /\ Top(event.stack) \in CycleLists \cup {"show_cycle_menu"}

\* 9 was chosen at the cycle menu.
BackChosen ==
    event.kind = "choice" /\ event.choice = 9 /\ Top(event.stack) = "show_cycle_menu"

\* C29: choosing 0 at a cycle list, at the search results or at the cycle menu
\* leaves every nested loop and returns to show_test_cycle_menu's prompt, the
\* process running, MainMenuRequest taken by clauses that name it and never by
\* an `except Exception`; choosing 9 at the cycle menu returns one level, to
\* the cycle list.
C29_MainMenuRequestAbsorbed ==
    /\ JumpChosen =>
         /\ exit_code = -1
         /\ stack = <<"main", "show_main_menu", "run_test_cycle_management",
                      "show_test_cycle_menu">>
         /\ wait = "prompt"
         /\ event.handled # <<>>
         /\ \A k \in DOMAIN event.handled : event.handled[k].class = "MainMenuRequest"
         /\ event.handled[Len(event.handled)].frame \in CycleLists
    /\ BackChosen =>
         /\ exit_code = -1
         /\ stack = Front(event.stack)
         /\ Top(stack) \in CycleLists
         /\ wait = "prompt"

\* 0 chosen at the cycle menu of a cycle found by search: back at the test
\* cycle menu.
C29_Witness ==
    /\ JumpChosen
    /\ Top(event.stack) = "show_cycle_menu"
    /\ event.stack[Len(event.stack) - 1] = "search_and_select_cycle_interactive"
    /\ Top(stack) = "show_test_cycle_menu"
    /\ Len(event.handled) = 3

\* The run was interrupted.
RunInterrupted == event.kind = "interrupt"

\* The defects the store holds as closed.
ClosedIn(srv) == {d \in DOMAIN srv : Lower(srv[d]) = str_close}

\* What C30 asks of the state the interrupt leaves: no request in flight, no
\* summary, and control in the parent menu, or the process ended with code 0
\* when handle_interrupt recorded an interrupt less than 2 seconds before.
InterruptedRunStopped ==
    RunInterrupted =>
        /\ in_flight = {}
        /\ ~summary.printed
        /\ flow = "defect" =>
             /\ exit_code = -1
             /\ Top(stack) = "show_defect_menu"
             /\ last_interrupt_time = event.last
        /\ flow = "test" =>
             IF event.at - event.last < 2
             THEN exit_code = 0
             ELSE /\ exit_code = -1
                  /\ Top(stack) = "show_cycle_menu"
                  /\ last_interrupt_time = event.at

\* The interrupt undoes no write, and no write follows it.
InterruptKeepsWrites ==
    /\ (~RunInterrupted /\ RunInterrupted') =>
           /\ calls' = calls
           /\ ClosedIn(server) \subseteq ClosedIn(server')
    /\ RunInterrupted =>
           /\ calls' = calls
           /\ server' = server
           /\ in_flight' = in_flight
           /\ summary' = summary

C30_DoubleInterruptExits ==
    /\ RunInterrupted
    /\ flow = "test"
    /\ calls # <<>>
    /\ i <= Len(matched)
    /\ exit_code = 0

====
